---------------------------- MODULE Spec2Model ----------------------------
(***************************************************************************)
(* A model of the core of GFFUtils: the GFF attribute codec and the        *)
(* structured feature identifier (GFFUtils/GFFFile.py), the annotation     *)
(* lookup (GFFUtils/annotation.py) and the SGD duplicate handling          *)
(* (GFFUtils/clean/sgd.py).                                                *)
(*                                                                         *)
(* Text is modelled as a sequence of lexemes.  A lexeme is a one-character *)
(* string (":", ";", "=", "%", a digit, ...) or a word such as "CDS" that  *)
(* stands for a run of letters that no operation of the code splits.       *)
(*                                                                         *)
(* Every component has its own variables and its own specification; the    *)
(* variables of the components a specification does not run stay at their  *)
(* idle values.                                                            *)
(***************************************************************************)
EXTENDS Integers, Sequences, FiniteSets, TLC

VARIABLES
    \* ---- GFFID (GFFFile.py) ----
    id_pc,        \* "off" | "new" | "formatted" | "parsed"
    id_given,     \* the identifier object whose str() is taken
    id_text,      \* str(id_given)
    id_parsed,    \* GFFID(id_text)
    \* ---- GroupByID (clean/sgd.py) ----
    grp_pc,       \* "off" | "call" | "done"
    grp_data,     \* the list of GFF data lines passed to GroupByID
    grp_result,   \* what the call gave: the subsets, or a raised ValueError
    \* ---- duplicate SGD handling (clean/sgd.py, cli/gffcleaner.py) ----
    sgd_pc,       \* "off" | "loaded" | "resolving" | "returned"
    gff_data,     \* the GFFFile: the list of data lines
    mapping_data, \* the TabFile of candidate genes (name, chr, start, end, strand)
    duplicates,   \* the OrderedDictionary returned by GFFGetDuplicateSGDs
    result,       \* the result dictionary of GFFResolveDuplicateSGDs
    res_done,     \* number of keys of duplicates the resolver loop has handled
    \* ---- GFFAttributes (GFFFile.py) ----
    attr_pc,      \* "off" | "new" | "parsed" | "printed"
    attribute_data, \* the text given to GFFAttributes()
    attrs,        \* the GFFAttributes object
    attr_str,     \* str(attrs)
    \* ---- GFFInsertMissingGenes (clean/sgd.py) ----
    ins_pc,       \* "off" | "new" | "looping" | "returned"
    ins_input,    \* the GFF data as given to the call
    ins_gff_data, \* gff_data, changed in place
    ins_mapping,  \* mapping_data
    ins_sgds,     \* the local list sgds
    ins_done,     \* number of genes of mapping_data the loop has handled
    ins_step,     \* what the last pass of the loop did
    \* ---- GFFGroupSGDs (clean/sgd.py) ----
    gs_pc,        \* "off" | "new" | "looping" | "returned" | "raised"
    gs_input,     \* the GFF data as given to the call
    gs_gff_data,  \* gff_data, changed in place
    gs_next_ln,   \* the local next_ln
    gs_first,     \* the data as the first call of GFFGroupSGDs returned it
    \* ---- GTFAttributes (GTFFile.py) ----
    gtf_pc,       \* "off" | "new" | "parsed" | "printed"
    gtf_attribute_data, \* the text given to GTFAttributes()
    gtf_attrs,    \* the GTFAttributes object
    gtf_str,      \* str(gtf_attrs)
    \* ---- GFFAnnotationLookup (annotation.py) ----
    ann_pc,       \* "off" | "new" | "ready" | "loop" | "returned"
    ann_data,     \* the GFF data lines the lookup is built from
    lookup_id,    \* __lookup_id: ID -> list of data lines
    lookup_parent,\* __lookup_parent: ID -> value of the Parent attribute
    anc_idx,      \* getAncestorGene: the argument idx
    anc_idx0,     \* getAncestorGene: the local idx0
    anc_pass,     \* getAncestorGene: passes of the while loop, modulo 2
    anc_result,   \* getAncestorGene: a data line, None or a raised KeyError
    ann_format,   \* __feature_data_format: "gff" | "gtf"
    ann_feature_type, \* __feature_type ("" when None)
    ann_caller,   \* "direct" | "getAnnotation": who called getAncestorGene
    parent_feature, \* getAnnotation: the local parent_feature
    annotation,   \* getAnnotation: the GFFAnnotation returned, or raised
    od_pc,        \* OrderedDictionary: "off" | "live"
    od_dict,      \* the OrderedDictionary: __keys and __dict
    od_before,    \* the OrderedDictionary before the last operation
    od_op,        \* the last operation and its arguments
    od_out,       \* what the last operation returned, or "KeyError"
    aid_pc,       \* GFFAddIDAttributes: "off" | "new" | "looping" | "returned"
    aid_input,    \* the records given to GFFAddIDAttributes
    aid_gff_data, \* gff_data, modified in place
    aid_count,    \* the local count
    aid_next,     \* number of records the for loop has passed
    upd_pc,       \* GFFUpdateAttributes: "off" | "new" | "looping" | "returned"
    upd_input,    \* the attributes of the records given to it
    upd_gff_data, \* the attributes of the records, modified in place
    upd_args,     \* update_keys, exclude_keys, no_empty_values, exclude_nokeys
    upd_next      \* number of records the for loop has passed

IdVars == <<id_pc, id_given, id_text, id_parsed>>
GrpVars == <<grp_pc, grp_data, grp_result>>
SgdVars == <<sgd_pc, gff_data, mapping_data, duplicates, result, res_done>>

AnnConfig == <<ann_format, ann_feature_type>>

AnnotVars == <<ann_caller, parent_feature, annotation>>

AnnVars == <<ann_pc, ann_data, lookup_id, lookup_parent, anc_idx, anc_idx0,
             anc_pass, anc_result, AnnConfig, AnnotVars>>

AttrVars == <<attr_pc, attribute_data, attrs, attr_str>>

InsVars == <<ins_pc, ins_input, ins_gff_data, ins_mapping, ins_sgds, ins_done,
             ins_step>>

GsVars == <<gs_pc, gs_input, gs_gff_data, gs_next_ln, gs_first>>

GtfVars == <<gtf_pc, gtf_attribute_data, gtf_attrs, gtf_str>>

OdVars == <<od_pc, od_dict, od_before, od_op, od_out>>

AidVars == <<aid_pc, aid_input, aid_gff_data, aid_count, aid_next>>

UpdVars == <<upd_pc, upd_input, upd_gff_data, upd_args, upd_next>>

vars == <<IdVars, GrpVars, SgdVars, AnnVars, AttrVars, GtfVars, InsVars,
          GsVars, OdVars, AidVars, UpdVars>>

\* An action of component c leaves the other components' variables alone
KeepAllBut(c) ==
    /\ IF c = "id" THEN TRUE ELSE UNCHANGED IdVars
    /\ IF c = "grp" THEN TRUE ELSE UNCHANGED GrpVars
    /\ IF c = "sgd" THEN TRUE ELSE UNCHANGED SgdVars
    /\ IF c = "ann" THEN TRUE ELSE UNCHANGED AnnVars
    /\ IF c = "attr" THEN TRUE ELSE UNCHANGED AttrVars
    /\ IF c = "gtf" THEN TRUE ELSE UNCHANGED GtfVars
    /\ IF c = "ins" THEN TRUE ELSE UNCHANGED InsVars
    /\ IF c = "gs" THEN TRUE ELSE UNCHANGED GsVars
    /\ IF c = "od" THEN TRUE ELSE UNCHANGED OdVars
    /\ IF c = "aid" THEN TRUE ELSE UNCHANGED AidVars
    /\ IF c = "upd" THEN TRUE ELSE UNCHANGED UpdVars

(***************************************************************************)
(* Bounds of the model                                                     *)
(***************************************************************************)
MaxIdIndex == 11      \* largest index field drawn for an identifier
MaxCodeLen == 2       \* longest code / name drawn for an identifier
MaxGroupLen == 4      \* longest list of data lines drawn for GroupByID
MaxGroupIndex == 3    \* largest ID index drawn for those data lines
MaxDupLines == 5      \* longest GFF file drawn for GFFGetDuplicateSGDs
MaxLines == 4         \* longest GFF file drawn for GFFResolveDuplicateSGDs
MaxAnnLines == 3      \* longest GFF file drawn for GFFAnnotationLookup
MaxAttrLen == 5       \* longest attribute text drawn for GFFAttributes
MaxAnnotLines == 2    \* longest GFF / GTF file drawn for getAnnotation
MaxGtfSegments == 3   \* most 'key value;' segments drawn for GTFAttributes
MaxInsLines == 3      \* longest GFF file drawn for GFFInsertMissingGenes
MaxGsLines == 3       \* longest GFF file drawn for GFFGroupSGDs
MaxAidLines == 3      \* longest GFF file drawn for GFFAddIDAttributes
MaxUpdLines == 2      \* longest GFF file drawn for GFFUpdateAttributes

(***************************************************************************)
(* Text helpers                                                            *)
(***************************************************************************)
\* All sequences over S of length at most n
SeqsUpTo(S, n) == UNION {[1..k -> S] : k \in 0..n}

\* The concatenation of a list of lists
RECURSIVE Flatten(_)
Flatten(ss) == IF ss = <<>> THEN <<>> ELSE Head(ss) \o Flatten(Tail(ss))

Digits == <<"0", "1", "2", "3", "4", "5", "6", "7", "8", "9">>

IsDigit(c) == \E d \in 1..10 : Digits[d] = c

DigitVal(c) == (CHOOSE d \in 1..10 : Digits[d] = c) - 1

\* python: "%d" % n
RECURSIVE DecStr(_)
DecStr(n) ==
    IF n < 0 THEN <<"-">> \o DecStr(0 - n)
    ELSE IF n < 10 THEN <<Digits[n + 1]>>
    ELSE DecStr(n \div 10) \o <<Digits[(n % 10) + 1]>>

RECURSIVE DigitsVal(_)
DigitsVal(s) ==
    IF s = <<>> THEN 0
    ELSE 10 * DigitsVal(SubSeq(s, 1, Len(s) - 1)) + DigitVal(s[Len(s)])

\* python: int(s) succeeds (an optional sign, then one or more digits)
IntOk(s) ==
    LET body == IF s # <<>> /\ s[1] \in {"-", "+"} THEN Tail(s) ELSE s
    IN  body # <<>> /\ \A i \in 1..Len(body) : IsDigit(body[i])

\* python: int(s), for s with IntOk(s)
IntVal(s) ==
    IF s[1] = "-" THEN 0 - DigitsVal(Tail(s))
    ELSE IF s[1] = "+" THEN DigitsVal(Tail(s))
    ELSE DigitsVal(s)

\* python: s.split(sep) for a one-lexeme separator
RECURSIVE Split(_, _)
Split(s, sep) ==
    IF \A i \in 1..Len(s) : s[i] # sep THEN <<s>>
    ELSE LET i == CHOOSE k \in 1..Len(s) :
                      s[k] = sep /\ \A j \in 1..(k - 1) : s[j] # sep
         IN  <<SubSeq(s, 1, i - 1)>> \o Split(SubSeq(s, i + 1, Len(s)), sep)

\* python: sep.join(items)
RECURSIVE Join(_, _)
Join(items, sep) ==
    IF items = <<>> THEN <<>>
    ELSE IF Len(items) = 1 THEN items[1]
    ELSE items[1] \o <<sep>> \o Join(Tail(items), sep)

(***************************************************************************)
(* GFFID: the structured identifier <name> or <code>:<name>:<index>        *)
(***************************************************************************)
NoID == [code |-> <<>>, name |-> <<>>, index |-> 0, raised |-> FALSE]

\* GFFID.__init__: the index field, when int() accepts the third item
GFFIDIndex(items) == IF Len(items) > 2 THEN IntVal(items[3]) ELSE 0

\* GFFID.__init__
GFFID(gff_id) ==
    LET items == Split(gff_id, ":")
        code  == IF Len(items) = 1 THEN <<>> ELSE items[1]
        name  == IF Len(items) = 1 THEN gff_id ELSE items[2]
    IN  IF Len(items) > 2 /\ ~IntOk(items[3])
        THEN [code |-> code, name |-> name, index |-> 0, raised |-> TRUE]
        ELSE [code |-> code, name |-> name, index |-> GFFIDIndex(items),
              raised |-> FALSE]

GFFIDReprNoIndex(id) ==
    IF id.code = <<>> THEN id.name
    ELSE id.code \o <<":">> \o id.name

\* GFFID.__repr__
GFFIDRepr(id) ==
    IF id.code = <<>> THEN id.name
    ELSE id.code \o <<":">> \o id.name \o <<":">> \o DecStr(id.index)

IdLexemes == {"CDS", ":"}
NameLexemes == {"A", ":"}

IdInit ==
    /\ id_pc = "new"
    /\ \E c \in SeqsUpTo(IdLexemes, MaxCodeLen),
          n \in SeqsUpTo(NameLexemes, MaxCodeLen),
          i \in (0 - 1)..MaxIdIndex :
          id_given = [code |-> c, name |-> n, index |-> i, raised |-> FALSE]
    /\ id_text = <<>>
    /\ id_parsed = NoID

IdIdle ==
    /\ id_pc = "off"
    /\ id_given = NoID
    /\ id_text = <<>>
    /\ id_parsed = NoID

\* str(id)
IdFormat ==
    /\ id_pc = "new"
    /\ id_text' = GFFIDRepr(id_given)
    /\ id_pc' = "formatted"
    /\ UNCHANGED <<id_given, id_parsed>>
    /\ KeepAllBut("id")

\* GFFID(str(id))
IdParse ==
    /\ id_pc = "formatted"
    /\ id_parsed' = GFFID(id_text)
    /\ id_pc' = "parsed"
    /\ UNCHANGED <<id_given, id_text>>
    /\ KeepAllBut("id")

(***************************************************************************)
(* GFF data lines                                                          *)
(*                                                                         *)
(* A data line is a record of the nine GFF columns that the code reads,    *)
(* with its line number as identity.  The attributes column is a function  *)
(* from the keys present to their values (texts).                          *)
(***************************************************************************)
DataLine(ln, seqname, feature, start, end, strand, attributes) ==
    [lineno |-> ln, seqname |-> seqname, feature |-> feature,
     start |-> start, end |-> end, strand |-> strand,
     attributes |-> attributes]

\* data['attributes']['ID'] parsed: GFFID(data['attributes']['ID'])
IDOf(data) == GFFID(data.attributes["ID"])

\* Line numbers 1..n given to a drawn list of lines (GFFIterator.next)
Numbered(lines) == [i \in 1..Len(lines) |-> [lines[i] EXCEPT !.lineno = i]]

(***************************************************************************)
(* GroupByID (clean/sgd.py)                                                *)
(***************************************************************************)
NewSubsetOnDecrease(last_index, this_index) ==
    last_index # <<>> /\ this_index <= last_index[1]

\* GroupByID: "if last_index is not None: if this_index != last_index + 1".
\* last_index is <<>> for None, <<n>> for n.
NewSubset(last_index, this_index) ==
    last_index # <<>> /\ this_index # last_index[1] + 1

\* GroupByID: the loop over gff_data and the final append
RECURSIVE GroupLoop(_, _, _, _)
GroupLoop(rest, this_subset, subsets, last_index) ==
    IF rest = <<>>
    THEN IF this_subset # <<>> THEN Append(subsets, this_subset) ELSE subsets
    ELSE LET data       == Head(rest)
             this_index == IDOf(data).index
             split      == NewSubset(last_index, this_index)
         IN  GroupLoop(Tail(rest),
                       Append(IF split THEN <<>> ELSE this_subset, data),
                       IF split THEN Append(subsets, this_subset) ELSE subsets,
                       <<this_index>>)

\* GFFID() raises ValueError on one of the lines
GroupByIDRaises(data_lines) ==
    \E i \in 1..Len(data_lines) : IDOf(data_lines[i]).raised

\* GroupByID, for data on which it does not raise
GroupByID(data_lines) == GroupLoop(data_lines, <<>>, <<>>, <<>>)

GroupNames == {"A", "B"}

\* The ID attribute values drawn: CDS:<name>:<i>, a bare name (index 0) and
\* an identifier whose index is not a number
GroupIDs ==
    {GFFIDRepr([code |-> <<"CDS">>, name |-> <<n>>, index |-> i,
                raised |-> FALSE]) : n \in GroupNames, i \in 1..MaxGroupIndex}
    \cup {<<"A">>, <<"CDS", ":", "A", ":", "A">>}

GroupLine(id) ==
    DataLine(0, "chr1", "CDS", 1, 2, "+", [k \in {"ID"} |-> id])

\* The lines of indices 1,2,3,1,5,6 under one name
GroupExample ==
    [i \in 1..6 |->
        GroupLine(GFFIDRepr([code |-> <<"CDS">>, name |-> <<"A">>,
                             index |-> <<1, 2, 3, 1, 5, 6>>[i],
                             raised |-> FALSE]))]

GroupInputs ==
    {[i \in 1..Len(ids) |-> GroupLine(ids[i])] :
        ids \in SeqsUpTo(GroupIDs, MaxGroupLen)} \cup {GroupExample}

NoGroups == [raised |-> FALSE, subsets |-> <<>>]

GrpInit ==
    /\ grp_pc = "call"
    /\ \E lines \in GroupInputs : grp_data = Numbered(lines)
    /\ grp_result = NoGroups

GrpIdle ==
    /\ grp_pc = "off"
    /\ grp_data = <<>>
    /\ grp_result = NoGroups

\* groups = GroupByID(gff_data)
GrpCall ==
    /\ grp_pc = "call"
    /\ grp_result' =
          IF GroupByIDRaises(grp_data)
          THEN [raised |-> TRUE, subsets |-> <<>>]
          ELSE [raised |-> FALSE, subsets |-> GroupByID(grp_data)]
    /\ grp_pc' = "done"
    /\ UNCHANGED grp_data
    /\ KeepAllBut("grp")

(***************************************************************************)
(* OrderedDictionary (GFFFile.py): a key list and a value store            *)
(***************************************************************************)
Range(f) == {f[i] : i \in DOMAIN f}

ODEmpty == [keys |-> <<>>, dict |-> <<>>]

ODContains(d, key) == key \in Range(d.keys)

\* OrderedDictionary.__setitem__
ODSet(d, key, value) ==
    [keys |-> IF ODContains(d, key) THEN d.keys ELSE Append(d.keys, key),
     dict |-> [k \in DOMAIN d.dict \cup {key} |->
                  IF k = key THEN value ELSE d.dict[k]]]

\* OrderedDictionary.__delitem__, for a key of the dictionary
ODDel(d, key) ==
    [keys |-> SelectSeq(d.keys, LAMBDA k : k # key),
     dict |-> [k \in DOMAIN d.dict \ {key} |-> d.dict[k]]]

(***************************************************************************)
(* GFFGetDuplicateSGDs (clean/sgd.py)                                      *)
(***************************************************************************)
\* "if 'SGD' in attributes: sgd = attributes['SGD']; if sgd != ''"
HasSGD(data) ==
    "SGD" \in DOMAIN data.attributes /\ data.attributes["SGD"] # <<>>

\* GFFGetDuplicateSGDs: the loop that stores every line under its SGD
RECURSIVE CollectSGDs(_, _)
CollectSGDs(rest, dups) ==
    IF rest = <<>> THEN dups
    ELSE LET data == Head(rest)
             sgd  == data.attributes["SGD"]
         IN  CollectSGDs(Tail(rest),
                 IF ~HasSGD(data) THEN dups
                 ELSE IF ODContains(dups, sgd)
                      THEN ODSet(dups, sgd, Append(dups.dict[sgd], data))
                      ELSE ODSet(dups, sgd, <<data>>))

NotDuplicateIfEmpty(lines) == Len(lines) < 1

\* "if len(duplicates[sgd]) < 2: del(duplicates[sgd])"
NotDuplicate(lines) == Len(lines) < 2

\* GFFGetDuplicateSGDs: the loop over duplicates.keys() that deletes
RECURSIVE FilterDuplicates(_, _)
FilterDuplicates(keys, dups) ==
    IF keys = <<>> THEN dups
    ELSE FilterDuplicates(Tail(keys),
             IF NotDuplicate(dups.dict[Head(keys)])
             THEN ODDel(dups, Head(keys)) ELSE dups)

\* GFFGetDuplicateSGDs
GFFGetDuplicateSGDs(data) ==
    LET all == CollectSGDs(data, ODEmpty)
    IN  FilterDuplicates(all.keys, all)

(***************************************************************************)
(* GFFResolveDuplicateSGDs (clean/sgd.py)                                  *)
(***************************************************************************)
OverlapMargin == 1000

EmptyResult ==
    [resolved_sgds |-> <<>>,
     unresolved_sgds |-> <<>>,
     unresolved_sgds_no_mapping_genes |-> <<>>,
     unresolved_sgds_no_mapping_genes_after_filter |-> <<>>,
     unresolved_sgds_no_overlaps |-> <<>>,
     unresolved_sgds_multiple_matches |-> <<>>,
     discard |-> <<>>]

\* mapping_data.lookup('name',sgd): the genes of that name, in file order
MappingGenes(mapping, sgd) == SelectSeq(mapping, LAMBDA gene : gene.name = sgd)

\* the filter on the chromosome alone
SameChr(gene, duplicate) == gene.chr = duplicate.seqname

\* "if gene['chr'] == duplicate['seqname'] and
\*     gene['strand'] == duplicate['strand']"
SameChrStrand(gene, duplicate) ==
    gene.chr = duplicate.seqname /\ gene.strand = duplicate.strand

\* The keys of genes_to_duplicates in the order they are first set: the loop
\* over the duplicates, and inside it over the mapping genes
RECURSIVE GeneKeys(_, _, _)
GeneKeys(dups, genes, keys) ==
    IF dups = <<>> THEN keys
    ELSE GeneKeys(Tail(dups), genes,
             keys \o SelectSeq(genes, LAMBDA gene :
                         SameChrStrand(gene, Head(dups))
                         /\ gene \notin Range(keys)))

\* the whole duplicate record list, whatever the gene
WholeDuplicateList(dups, gene) == dups

\* genes_to_duplicates[gene] after the matching loop
DuplicatesOfGene(dups, gene) ==
    SelectSeq(dups, LAMBDA duplicate : SameChrStrand(gene, duplicate))

\* The duplicates that no mapping gene was assigned to ("if not assigned")
Unassigned(dups, genes) ==
    SelectSeq(dups, LAMBDA duplicate :
        \A i \in 1..Len(genes) : ~SameChrStrand(genes[i], duplicate))

\* the overlap test with the bounds of the region counted as inside
InRegionInclusive(gene, subset, overlap_margin) ==
    /\ subset[1].start >= gene.start - overlap_margin
    /\ subset[Len(subset)].end <= gene.end + overlap_margin

\* "if duplicate[0]['start'] > region[0] and duplicate[-1]['end'] < region[1]"
\* with region = (gene['start'] - overlap_margin, gene['end'] + overlap_margin)
InRegion(gene, subset, overlap_margin) ==
    /\ subset[1].start > gene.start - overlap_margin
    /\ subset[Len(subset)].end < gene.end + overlap_margin

\* The loop over genes_to_duplicates.keys(): the subsets that are matches
RECURSIVE OverlapMatches(_, _, _)
OverlapMatches(keys, dups, overlap_margin) ==
    IF keys = <<>> THEN <<>>
    ELSE SelectSeq(GroupByID(DuplicatesOfGene(dups, Head(keys))),
                   LAMBDA subset : InRegion(Head(keys), subset, overlap_margin))
         \o OverlapMatches(Tail(keys), dups, overlap_margin)

\* The same loop: the lines of the subsets that are not matches, unpacked
RECURSIVE OverlapRejects(_, _, _)
OverlapRejects(keys, dups, overlap_margin) ==
    IF keys = <<>> THEN <<>>
    ELSE Flatten(SelectSeq(GroupByID(DuplicatesOfGene(dups, Head(keys))),
                   LAMBDA subset : ~InRegion(Head(keys), subset, overlap_margin)))
         \o OverlapRejects(Tail(keys), dups, overlap_margin)

\* matches at "End of filtering process"
Matches(dups, genes, overlap_margin) ==
    OverlapMatches(GeneKeys(dups, genes, <<>>), dups, overlap_margin)

\* rejects at "End of filtering process"
Rejects(dups, genes, overlap_margin) ==
    Unassigned(dups, genes)
    \o OverlapRejects(GeneKeys(dups, genes, <<>>), dups, overlap_margin)

\* The list of the result that one pass of the loop appends sgd to
Verdict(dups, genes, overlap_margin) ==
    IF Len(genes) = 0 THEN "unresolved_sgds_no_mapping_genes"
    ELSE IF Len(GeneKeys(dups, genes, <<>>)) = 0
         THEN "unresolved_sgds_no_mapping_genes_after_filter"
    ELSE IF Len(Matches(dups, genes, overlap_margin)) = 1
         THEN "resolved_sgds"
    ELSE IF Len(Matches(dups, genes, overlap_margin)) = 0
         THEN "unresolved_sgds_no_overlaps"
    ELSE "unresolved_sgds_multiple_matches"

ResolveOneNoContinue(res, sgd, dups, mapping, overlap_margin) ==
    LET genes   == MappingGenes(mapping, sgd)
        verdict == Verdict(dups, genes, overlap_margin)
        listed  == [res EXCEPT ![verdict] = Append(@, sgd)]
    IN  IF verdict = "resolved_sgds"
        THEN [listed EXCEPT !.discard =
                  @ \o Rejects(dups, genes, overlap_margin)]
        ELSE IF verdict = "unresolved_sgds_no_mapping_genes"
        THEN [listed EXCEPT
                 !.unresolved_sgds_no_mapping_genes_after_filter =
                     Append(@, sgd)]
        ELSE listed

\* One pass of "for sgd in duplicates.keys()"
ResolveOne(res, sgd, dups, mapping, overlap_margin) ==
    LET genes   == MappingGenes(mapping, sgd)
        verdict == Verdict(dups, genes, overlap_margin)
        listed  == [res EXCEPT ![verdict] = Append(@, sgd)]
    IN  IF verdict = "resolved_sgds"
        THEN [listed EXCEPT !.discard =
                  @ \o Rejects(dups, genes, overlap_margin)]
        ELSE listed

UnresolvedLists ==
    <<"unresolved_sgds_no_mapping_genes",
      "unresolved_sgds_no_mapping_genes_after_filter",
      "unresolved_sgds_no_overlaps",
      "unresolved_sgds_multiple_matches">>

CollectUnresolvedButLast(res) ==
    [res EXCEPT !.unresolved_sgds =
        @ \o res[UnresolvedLists[1]] \o res[UnresolvedLists[2]]
          \o res[UnresolvedLists[3]]]

\* "Finished - make list of unresolved SGDs"
CollectUnresolved(res) ==
    [res EXCEPT !.unresolved_sgds =
        @ \o res[UnresolvedLists[1]] \o res[UnresolvedLists[2]]
          \o res[UnresolvedLists[3]] \o res[UnresolvedLists[4]]]

(***************************************************************************)
(* The inputs drawn for the duplicate SGD handling                         *)
(***************************************************************************)
SGDNames == {"A", "B"}

CDSID(name, index) ==
    GFFIDRepr([code |-> <<"CDS">>, name |-> <<name>>, index |-> index,
               raised |-> FALSE])

\* Lines for GFFGetDuplicateSGDs: no SGD attribute, a blank SGD, or a name
DupLineKinds ==
    {DataLine(0, "chr1", "CDS", 1, 2, "+", [k \in {"ID"} |-> <<"X">>]),
     DataLine(0, "chr1", "CDS", 1, 2, "+",
              [k \in {"ID", "SGD"} |-> IF k = "ID" THEN <<"X">> ELSE <<>>])}
    \cup {DataLine(0, "chr1", "CDS", 1, 2, "+",
                   [k \in {"ID", "SGD"} |-> IF k = "ID" THEN <<n>> ELSE <<n>>]) :
             n \in SGDNames}

SGDLine(name, index, seqname, strand, start, end) ==
    DataLine(0, seqname, "CDS", start, end, strand,
             [k \in {"ID", "SGD"} |->
                 IF k = "ID" THEN CDSID(name, index) ELSE <<name>>])

\* Lines for GFFResolveDuplicateSGDs.  Name A: on chr1 '+', a first part and
\* a second part (index 2) near position 2000, a line far away, a line that
\* ends at 4100, and a line near position 2000 on the other strand.  Name B:
\* a line that starts at 2001 and a line that starts at 2000.  With the genes
\* at 3000..3100 and a margin of 1000 the region is (2000, 4100).
ResLineKinds ==
    {SGDLine("A", 1, "chr1", "+", 2001, 2100),
     SGDLine("A", 2, "chr1", "+", 2200, 2300),
     SGDLine("A", 1, "chr1", "+", 9000, 9100),
     SGDLine("A", 1, "chr1", "+", 4000, 4100),
     SGDLine("A", 1, "chr1", "-", 2001, 2100),
     SGDLine("B", 1, "chr1", "+", 2001, 2100),
     SGDLine("B", 1, "chr1", "+", 2000, 2100)}

Gene(name, chr, start, end, strand) ==
    [lineno |-> 0, name |-> name, chr |-> chr, start |-> start, end |-> end,
     strand |-> strand]

\* Candidate genes: A near position 3000 and near position 9500 on chr1 '+',
\* A on another chromosome, B near position 3000
GeneList ==
    <<Gene(<<"A">>, "chr1", 3000, 3100, "+"),
      Gene(<<"A">>, "chr1", 9500, 9600, "+"),
      Gene(<<"A">>, "chr2", 3000, 3100, "+"),
      Gene(<<"B">>, "chr1", 3000, 3100, "+")>>

\* The lists made of some of the entries of list, in the order of list
RECURSIVE SubLists(_)
SubLists(list) ==
    IF list = <<>> THEN {<<>>}
    ELSE LET rest == SubLists(Tail(list))
         IN  rest \cup {<<Head(list)>> \o l : l \in rest}

DupInit ==
    /\ sgd_pc = "loaded"
    /\ \E lines \in SeqsUpTo(DupLineKinds, MaxDupLines) :
          gff_data = Numbered(lines)
    /\ mapping_data = <<>>
    /\ duplicates = ODEmpty
    /\ result = EmptyResult
    /\ res_done = 0

ResInit ==
    /\ sgd_pc = "loaded"
    /\ \E lines \in SeqsUpTo(ResLineKinds, MaxLines) :
          gff_data = Numbered(lines)
    /\ \E genes \in SubLists(GeneList) : mapping_data = Numbered(genes)
    /\ duplicates = ODEmpty
    /\ result = EmptyResult
    /\ res_done = 0

SgdIdle ==
    /\ sgd_pc = "off"
    /\ gff_data = <<>>
    /\ mapping_data = <<>>
    /\ duplicates = ODEmpty
    /\ result = EmptyResult
    /\ res_done = 0

\* duplicate_sgds = GFFGetDuplicateSGDs(gff_data)
GetDuplicates ==
    /\ sgd_pc = "loaded"
    /\ duplicates' = GFFGetDuplicateSGDs(gff_data)
    /\ sgd_pc' = "resolving"
    /\ UNCHANGED <<gff_data, mapping_data, result, res_done>>
    /\ KeepAllBut("sgd")

\* GFFResolveDuplicateSGDs: one pass of the loop over duplicates.keys()
ResolveStep ==
    /\ sgd_pc = "resolving"
    /\ res_done < Len(duplicates.keys)
    /\ LET sgd == duplicates.keys[res_done + 1]
       IN  result' = ResolveOne(result, sgd, duplicates.dict[sgd],
                                mapping_data, OverlapMargin)
    /\ res_done' = res_done + 1
    /\ UNCHANGED <<sgd_pc, gff_data, mapping_data, duplicates>>
    /\ KeepAllBut("sgd")

\* a return that also removes the discarded lines from gff_data
ResolveFinishRemoving ==
    /\ sgd_pc = "resolving"
    /\ res_done = Len(duplicates.keys)
    /\ result' = CollectUnresolved(result)
    /\ gff_data' = SelectSeq(gff_data,
                             LAMBDA d : d \notin Range(result.discard))
    /\ sgd_pc' = "returned"
    /\ UNCHANGED <<mapping_data, duplicates, res_done>>
    /\ KeepAllBut("sgd")

\* GFFResolveDuplicateSGDs: after the loop, fill unresolved_sgds and return
ResolveFinish ==
    /\ sgd_pc = "resolving"
    /\ res_done = Len(duplicates.keys)
    /\ result' = CollectUnresolved(result)
    /\ sgd_pc' = "returned"
    /\ UNCHANGED <<gff_data, mapping_data, duplicates, res_done>>
    /\ KeepAllBut("sgd")

(***************************************************************************)
(* GFFAnnotationLookup (annotation.py)                                     *)
(***************************************************************************)
\* f with f[key] set to value (a python dict assignment)
DictSet(f, key, value) ==
    [k \in DOMAIN f \cup {key} |-> IF k = key THEN value ELSE f[k]]

\* _load_from_gff: the loop over the lines, id_attr = 'ID'.
\* tables is [id |-> __lookup_id, parent |-> __lookup_parent].
RECURSIVE LoadFromGFF(_, _)
LoadFromGFF(rest, tables) ==
    IF rest = <<>> THEN tables
    ELSE LET line == Head(rest)
             attr == line.attributes
             idx  == attr["ID"]
             ids  == DictSet(tables.id, idx,
                        IF idx \in DOMAIN tables.id
                        THEN Append(tables.id[idx], line) ELSE <<line>>)
         IN  LoadFromGFF(Tail(rest),
                 IF "ID" \notin DOMAIN attr THEN tables
                 ELSE IF "Parent" \in DOMAIN attr
                      THEN [id |-> ids,
                            parent |-> DictSet(tables.parent, idx,
                                               attr["Parent"])]
                      ELSE [id |-> ids, parent |-> tables.parent])

NoneResult == [kind |-> "None", line |-> <<>>]

FirstLineAny(lines) == [kind |-> "line", line |-> lines[1]]

\* getAncestorGene: "for data in self.getDataFromID(idx0):
\*                      if data['feature'] == 'gene': return data"
\* and the "return None" that follows the loop
FirstGene(lines) ==
    IF \E i \in 1..Len(lines) : lines[i].feature = "gene"
    THEN [kind |-> "line",
          line |-> lines[CHOOSE i \in 1..Len(lines) :
                      /\ lines[i].feature = "gene"
                      /\ \A j \in 1..(i - 1) : lines[j].feature # "gene"]]
    ELSE NoneResult

\* getAncestorGene: the handler of the KeyError that ends the while loop
AncestorAtEnd(idx, idx0, ids) ==
    IF idx0 = idx THEN NoneResult
    ELSE IF idx0 \notin DOMAIN ids
         THEN [kind |-> "KeyError", line |-> <<>>]
         ELSE FirstGene(ids[idx0])

\* _load_from_gtf: the loop over the lines, id_attr = 'gene_id'
RECURSIVE LoadFromGTF(_, _)
LoadFromGTF(rest, tables) ==
    IF rest = <<>> THEN tables
    ELSE LET line == Head(rest)
             attr == line.attributes
         IN  LoadFromGTF(Tail(rest),
                 IF line.feature = "gene" /\ "gene_id" \in DOMAIN attr
                 THEN [id |-> DictSet(tables.id, attr["gene_id"], <<line>>),
                       parent |-> tables.parent]
                 ELSE tables)

\* The python value None where a text is expected
PyNone == <<"None">>

\* line['attributes'][key]: GFFAttributes (an OrderedDictionary) raises
\* KeyError for a missing key, GTFAttributes returns None
AttrGet(format, attributes, key) ==
    IF key \in DOMAIN attributes
    THEN [raised |-> FALSE, value |-> attributes[key]]
    ELSE IF format = "gtf" THEN [raised |-> FALSE, value |-> PyNone]
         ELSE [raised |-> TRUE, value |-> <<>>]

\* The order in which the attributes of a data line of the model are written
AttributeOrder ==
    <<"ID", "Parent", "Name", "gene_id", "gene_name", "description", "Note">>

\* "for attr in attributes": the keys of the attributes in their order
KeysOf(attributes) ==
    SelectSeq(AttributeOrder, LAMBDA k : k \in DOMAIN attributes)

\* description.replace('\t','    ')
ReplaceTabs(text) ==
    Flatten([i \in 1..Len(text) |->
                IF text[i] = "\t" THEN <<" ", " ", " ", " ">> ELSE <<text[i]>>])

\* GFFAnnotation.build_description_text: the loop over the attributes
RECURSIVE DescriptionItems(_, _, _)
DescriptionItems(keys, attributes, store_attribute) ==
    IF keys = <<>> THEN <<>>
    ELSE LET attr == Head(keys)
         IN  (IF store_attribute
              THEN <<(<<attr, "=">> \o attributes[attr])>> ELSE <<>>)
             \o (IF attr = "description" THEN <<attributes[attr]>> ELSE <<>>)
             \o DescriptionItems(Tail(keys), attributes,
                                 store_attribute \/ attr = "description")

\* GFFAnnotation.build_description_text
BuildDescriptionText(attributes) ==
    ReplaceTabs(Join(DescriptionItems(KeysOf(attributes), attributes, FALSE),
                     ";"))

\* The format attribute of a data line: that of the file it was read from
LineFormat(format) == format

\* getAnnotation raised an exception: no GFFAnnotation is returned
RaisedAnnotation ==
    [raised |-> TRUE, parent_feature_name |-> <<>>,
     parent_feature_type |-> <<>>, parent_feature_parent |-> <<>>,
     parent_gene_name |-> <<>>, chr |-> <<>>, start |-> <<>>, end |-> <<>>,
     strand |-> <<>>, description |-> <<>>]

\* No call of getAnnotation has returned yet
NoAnnotation == [RaisedAnnotation EXCEPT !.raised = FALSE]

\* GFFAnnotation(name, feature, associated_gene).  A text field holds '' as
\* <<>>, start and end hold the number n as <<n>>.
GFFAnnotation(name, feature, associated_gene, format) ==
    LET parent == IF feature.kind = "line"
                  THEN AttrGet(format, feature.line.attributes, "Parent")
                  ELSE [raised |-> FALSE, value |-> <<>>]
        gene   == associated_gene.line
        gname  == IF associated_gene.kind = "line"
                  THEN AttrGet(format, gene.attributes,
                               IF LineFormat(format) = "gff" THEN "Name"
                               ELSE "gene_name")
                  ELSE [raised |-> FALSE, value |-> <<>>]
        given  == associated_gene.kind = "line"
    IN  IF parent.raised \/ gname.raised THEN RaisedAnnotation
        ELSE [raised |-> FALSE,
              parent_feature_name |-> name,
              parent_feature_type |-> IF feature.kind = "line"
                                      THEN <<feature.line.feature>> ELSE <<>>,
              parent_feature_parent |-> parent.value,
              parent_gene_name |-> gname.value,
              chr |-> IF given THEN <<gene.seqname>> ELSE <<>>,
              start |-> IF given THEN <<gene.start>> ELSE <<>>,
              end |-> IF given THEN <<gene.end>> ELSE <<>>,
              strand |-> IF given THEN <<gene.strand>> ELSE <<>>,
              description |-> IF given
                              THEN BuildDescriptionText(gene.attributes)
                              ELSE <<>>]

\* python truth of a text field ('' is false) and of start / end ('' and 0
\* are false)
TruthyText(field) == field # <<>>

TruthyNumber(field) == field # <<>> /\ field[1] # 0

\* GFFAnnotation.gene_locus ("%s:%s-%s"), the numbers written in decimal
GeneLocus(a) ==
    IF TruthyText(a.chr) /\ TruthyNumber(a.start) /\ TruthyNumber(a.end)
    THEN a.chr \o <<":">> \o DecStr(a.start[1]) \o <<"-">> \o DecStr(a.end[1])
    ELSE <<>>

\* GFFAnnotation.gene_length
GeneLength(a) ==
    IF TruthyNumber(a.start) /\ TruthyNumber(a.end)
    THEN <<a.end[1] - a.start[1]>>
    ELSE <<>>

\* getAnnotation: the loop over getDataFromID(idx) that finds parent_feature
RECURSIVE FirstOfType(_, _)
FirstOfType(lines, feature_type) ==
    IF lines = <<>> THEN NoneResult
    ELSE IF feature_type = "" \/ Head(lines).feature = feature_type
         THEN [kind |-> "line", line |-> Head(lines)]
         ELSE FirstOfType(Tail(lines), feature_type)

\* the same loop without the test of the feature type
FirstOfAnyType(idx, ids, feature_type) ==
    IF idx \in DOMAIN ids THEN [kind |-> "line", line |-> ids[idx][1]]
    ELSE NoneResult

\* getAnnotation: parent_feature, None when getDataFromID raises KeyError
ParentFeature(idx, ids, feature_type) ==
    IF idx \in DOMAIN ids THEN FirstOfType(ids[idx], feature_type)
    ELSE NoneResult

AnnFeatures == {"gene", "mRNA"}
AnnIDs == {<<"G">>, <<"M">>, <<"E">>}
AnnParents == {<<"G">>, <<"M">>}

AnnLineKinds ==
    {DataLine(0, "chr1", f, 1, 2, "+", <<>>) : f \in AnnFeatures}
    \cup {DataLine(0, "chr1", f, 1, 2, "+", [k \in {"ID"} |-> i]) :
             f \in AnnFeatures, i \in AnnIDs}
    \cup {DataLine(0, "chr1", f, 1, 2, "+",
                   [k \in {"ID", "Parent"} |-> IF k = "ID" THEN i ELSE p]) :
             f \in AnnFeatures, i \in AnnIDs, p \in AnnParents}

AnnInit ==
    /\ ann_pc = "new"
    /\ \E lines \in SeqsUpTo(AnnLineKinds, MaxAnnLines) :
          ann_data = Numbered(lines)
    /\ lookup_id = <<>>
    /\ lookup_parent = <<>>
    /\ anc_idx = <<>>
    /\ anc_idx0 = <<>>
    /\ anc_result = NoneResult
    /\ ann_format = "gff"
    /\ ann_feature_type = ""
    /\ ann_caller = "direct"
    /\ parent_feature = NoneResult
    /\ annotation = NoAnnotation
    /\ anc_pass = 0

AnnIdle ==
    /\ ann_pc = "off"
    /\ ann_data = <<>>
    /\ lookup_id = <<>>
    /\ lookup_parent = <<>>
    /\ anc_idx = <<>>
    /\ anc_idx0 = <<>>
    /\ anc_result = NoneResult
    /\ ann_format = "gff"
    /\ ann_feature_type = ""
    /\ ann_caller = "direct"
    /\ parent_feature = NoneResult
    /\ annotation = NoAnnotation
    /\ anc_pass = 0

\* GFFAnnotationLookup(gff_data): the tables are loaded by format
AnnLoad ==
    /\ ann_pc = "new"
    /\ LET tables == IF ann_format = "gff"
                     THEN LoadFromGFF(ann_data, [id |-> <<>>, parent |-> <<>>])
                     ELSE LoadFromGTF(ann_data, [id |-> <<>>, parent |-> <<>>])
       IN  lookup_id' = tables.id /\ lookup_parent' = tables.parent
    /\ ann_pc' = "ready"
    /\ UNCHANGED <<ann_data, anc_idx, anc_idx0, anc_result, AnnConfig,
                   AnnotVars>>
    /\ UNCHANGED anc_pass
    /\ KeepAllBut("ann")

\* getAncestorGene(idx): "idx0 = idx"
AncestorCall ==
    /\ ann_pc = "ready"
    /\ \E idx \in AnnIDs : anc_idx' = idx /\ anc_idx0' = idx
    /\ ann_pc' = "loop"
    /\ ann_caller' = "direct"
    /\ UNCHANGED <<ann_data, lookup_id, lookup_parent, anc_result, AnnConfig,
                   parent_feature, annotation>>
    /\ anc_pass' = 0
    /\ KeepAllBut("ann")

\* getAncestorGene: "idx0 = self.getParentID(idx0)" finds a parent
AncestorHop ==
    /\ ann_pc = "loop"
    /\ anc_idx0 \in DOMAIN lookup_parent
    /\ anc_idx0' = lookup_parent[anc_idx0]
    /\ UNCHANGED <<ann_pc, ann_data, lookup_id, lookup_parent, anc_idx,
                   anc_result, AnnConfig, AnnotVars>>
    /\ anc_pass' = 1 - anc_pass
    /\ KeepAllBut("ann")

\* getAncestorGene: getParentID raises KeyError, the loop ends
AncestorEnd ==
    /\ ann_pc = "loop"
    /\ ann_caller = "direct"
    /\ anc_idx0 \notin DOMAIN lookup_parent
    /\ anc_result' = AncestorAtEnd(anc_idx, anc_idx0, lookup_id)
    /\ ann_pc' = "returned"
    /\ UNCHANGED <<ann_data, lookup_id, lookup_parent, anc_idx, anc_idx0,
                   AnnConfig, AnnotVars>>
    /\ UNCHANGED anc_pass
    /\ KeepAllBut("ann")

\* An attributes mapping with the given keys and values
Attributes(keys, values) ==
    [k \in Range(keys) |-> values[CHOOSE i \in 1..Len(keys) : keys[i] = k]]

\* GFF lines drawn for getAnnotation: those of AnnLineKinds, genes with a
\* Name, genes with a description (holding a tab) and a Note, and a feature
\* with two comma-joined parents
AnnotGFFKinds ==
    AnnLineKinds
    \cup {DataLine(0, "chr1", "gene", 10, 25, "+",
                   Attributes(<<"ID", "Name">>, <<i, <<"N">> >>)) : i \in AnnIDs}
    \cup {DataLine(0, "chr1", "gene", 0, 25, "-",
                   Attributes(<<"ID", "Name", "description">>,
                              <<(<<"G">>), <<"N">>, <<"d", "\t", "d">> >>)),
          DataLine(0, "chr1", "gene", 10, 25, "+",
                   Attributes(<<"ID", "Name", "description", "Note">>,
                              <<(<<"G">>), <<"N">>, <<"d">>, <<"n">> >>)),
          DataLine(0, "chr1", "mRNA", 1, 2, "+",
                   Attributes(<<"ID", "Parent">>,
                              <<(<<"E">>), <<"G", ",", "M">> >>))}

\* GTF lines drawn for getAnnotation
AnnotGTFKinds ==
    {DataLine(0, "chr1", f, 10, 25, "+", <<>>) : f \in {"gene", "transcript"}}
    \cup {DataLine(0, "chr1", f, 10, 25, "+",
                   Attributes(<<"gene_id">>, <<i>>)) :
             f \in {"gene", "transcript"}, i \in {<<"G">>, <<"M">>}}
    \cup {DataLine(0, "chr1", f, 10, 25, "+",
                   Attributes(<<"gene_id", "gene_name">>, <<i, <<"N">> >>)) :
             f \in {"gene", "transcript"}, i \in {<<"G">>, <<"M">>}}

AnnotInit ==
    /\ ann_pc = "new"
    /\ ann_format \in {"gff", "gtf"}
    /\ ann_feature_type \in {"", "gene", "mRNA"}
    /\ \E lines \in SeqsUpTo(IF ann_format = "gff" THEN AnnotGFFKinds
                              ELSE AnnotGTFKinds, MaxAnnotLines) :
          ann_data = Numbered(lines)
    /\ lookup_id = <<>>
    /\ lookup_parent = <<>>
    /\ anc_idx = <<>>
    /\ anc_idx0 = <<>>
    /\ anc_result = NoneResult
    /\ ann_caller = "direct"
    /\ parent_feature = NoneResult
    /\ annotation = NoAnnotation
    /\ anc_pass = 0

\* getAnnotation(idx) up to the call of getAncestorGene: returns at once when
\* there is no parent feature, or (GTF) with the feature as its own gene
AnnotationCall ==
    /\ ann_pc = "ready"
    /\ \E idx \in AnnIDs :
          LET feature == ParentFeature(idx, lookup_id, ann_feature_type)
          IN  /\ anc_idx' = idx
              /\ anc_idx0' = idx
              /\ parent_feature' = feature
              /\ IF feature.kind = "None"
                 THEN /\ annotation' = GFFAnnotation(idx, NoneResult,
                                                     NoneResult, ann_format)
                      /\ ann_pc' = "annotated"
                 ELSE IF ann_format = "gtf"
                 THEN /\ annotation' = GFFAnnotation(idx, feature, feature,
                                                     ann_format)
                      /\ ann_pc' = "annotated"
                 ELSE /\ annotation' = annotation
                      /\ ann_pc' = "loop"
    /\ ann_caller' = "getAnnotation"
    /\ UNCHANGED <<ann_data, lookup_id, lookup_parent, anc_result, AnnConfig>>
    /\ anc_pass' = 0
    /\ KeepAllBut("ann")

\* getAnnotation: getAncestorGene returns (or raises) and the annotation is
\* built
AnnotationReturn ==
    /\ ann_pc = "loop"
    /\ ann_caller = "getAnnotation"
    /\ anc_idx0 \notin DOMAIN lookup_parent
    /\ LET gene == AncestorAtEnd(anc_idx, anc_idx0, lookup_id)
       IN  /\ anc_result' = gene
           /\ annotation' =
                 IF gene.kind = "KeyError" THEN RaisedAnnotation
                 ELSE GFFAnnotation(anc_idx, parent_feature, gene, ann_format)
    /\ ann_pc' = "annotated"
    /\ UNCHANGED <<ann_data, lookup_id, lookup_parent, anc_idx, anc_idx0,
                   AnnConfig, ann_caller, parent_feature>>
    /\ UNCHANGED anc_pass
    /\ KeepAllBut("ann")

(***************************************************************************)
(* GFFAttributes (GFFFile.py): the attribute codec                         *)
(*                                                                         *)
(* The lexemes of an attribute text are the characters ';' '=' ',' '%' ' ' *)
(* the letter "x", the hexadecimal digits "3" and "B", the word "Parent"   *)
(* (one of the multi-valued attribute names), the bytes 0xB3 and 0xBB that *)
(* "%B3" and "%BB" decode to, and the digits "2" "5" "C" "D" that only the *)
(* encoder writes.                                                         *)
(***************************************************************************)
Byte_B3 == "\\xb3"
Byte_BB == "\\xbb"

\* urllib._hextochr, for the pairs of hexadecimal digits of the model
HexPairs == {<<"3", "3">>, <<"3", "B">>, <<"B", "3">>, <<"B", "B">>,
             <<"2", "C">>, <<"3", "D">>, <<"2", "5">>}

HexToChr(pair) ==
    CASE pair = <<"3", "3">> -> "3"
      [] pair = <<"3", "B">> -> ";"
      [] pair = <<"B", "3">> -> Byte_B3
      [] pair = <<"B", "B">> -> Byte_BB
      [] pair = <<"2", "C">> -> ","
      [] pair = <<"3", "D">> -> "="
      [] pair = <<"2", "5">> -> "%"

\* urllib.unquote: the loop over s.split('%')[1:]
RECURSIVE UnquoteItems(_)
UnquoteItems(items) ==
    IF items = <<>> THEN <<>>
    ELSE LET item == Head(items)
         IN  (IF Len(item) >= 2 /\ SubSeq(item, 1, 2) \in HexPairs
              THEN <<HexToChr(SubSeq(item, 1, 2))>> \o SubSeq(item, 3, Len(item))
              ELSE <<"%">> \o item)
             \o UnquoteItems(Tail(items))

\* urllib.unquote(s)
Unquote(s) ==
    LET res == Split(s, "%")
    IN  IF Len(res) = 1 THEN s ELSE res[1] \o UnquoteItems(Tail(res))

\* urllib.always_safe: letters, digits and '_.-'
AlwaysSafe == {"x", "Parent", "2", "3", "5", "B", "C", "D"}

\* the safe arguments of the two calls of urllib.quote in __escape_value
SafeMultivalued == {" ", ",", ":", "^", "*", "$", "@", "!", "+", "?", "|"}
SafeSingle == {" ", ":", "^", "*", "$", "@", "!", "+", "?", "|"}

\* urllib.quote: '%%%02X' % ord(c) for a character that is not safe
PercentCode(c) ==
    CASE c = ";" -> <<"%", "3", "B">>
      [] c = "=" -> <<"%", "3", "D">>
      [] c = "," -> <<"%", "2", "C">>
      [] c = "%" -> <<"%", "2", "5">>
      [] c = Byte_B3 -> <<"%", "B", "3">>
      [] c = Byte_BB -> <<"%", "B", "B">>

\* urllib.quote(s, safe)
Quote(s, safe) ==
    Flatten([i \in 1..Len(s) |->
                IF s[i] \in AlwaysSafe \cup safe THEN <<s[i]>>
                ELSE PercentCode(s[i])])

\* str.strip()
RECURSIVE LStrip(_)
LStrip(s) == IF s # <<>> /\ Head(s) = " " THEN LStrip(Tail(s)) ELSE s

RECURSIVE RStrip(_)
RStrip(s) ==
    IF s # <<>> /\ s[Len(s)] = " " THEN RStrip(SubSeq(s, 1, Len(s) - 1)) ELSE s

Strip(s) == RStrip(LStrip(s))

\* GFFAttributes.__init__: the multi-valued attributes of the model's keys
MultivaluedAttributes == {<<"Parent">>}

\* GFFAttributes(): the object before any data item is stored
NewAttributes ==
    [keys |-> <<>>, dict |-> <<>>, nokeys |-> <<>>,
     encode_values |-> TRUE, trailing_semicolon |-> FALSE]

\* GFFAttributes.__init__: key and value of one item
ItemKey(item) ==
    IF \E i \in 1..Len(item) : item[i] = "="
    THEN Strip(Split(item, "=")[1])
    ELSE <<>>

ItemValue(item) ==
    IF \E i \in 1..Len(item) : item[i] = "="
    THEN Strip(SubSeq(item, Len(Split(item, "=")[1]) + 2, Len(item)))
    ELSE Strip(item)

\* GFFAttributes.__init__: "value = urllib.unquote(value)"
StoredValue(value) == Unquote(value)

\* GFFAttributes.__init__: the loop over attribute_data.split(';')
RECURSIVE StoreItems(_, _)
StoreItems(items, a) ==
    IF items = <<>> THEN a
    ELSE LET item  == Head(items)
             key   == ItemKey(item)
             value == StoredValue(ItemValue(item))
             od    == ODSet([keys |-> a.keys, dict |-> a.dict], key, value)
         IN  StoreItems(Tail(items),
                 IF item = <<>> THEN a
                 ELSE IF key = <<>>
                      THEN [a EXCEPT !.nokeys = Append(a.nokeys, value)]
                      ELSE [a EXCEPT !.keys = od.keys, !.dict = od.dict])

\* GFFAttributes(attribute_data)
GFFAttributes(data) ==
    IF data = <<>> THEN NewAttributes
    ELSE [StoreItems(Split(data, ";"), NewAttributes)
            EXCEPT !.trailing_semicolon = (data[Len(data)] = ";")]

\* GFFAttributes.__escape_value
EscapeValue(a, key, value) ==
    IF key \in MultivaluedAttributes
    THEN Quote(value, SafeMultivalued)
    ELSE Quote(a.dict[key], SafeSingle)

\* GFFAttributes.__repr__
AttributesRepr(a) ==
    LET keyed == [i \in 1..Len(a.keys) |->
                    a.keys[i] \o <<"=">> \o
                    (IF a.encode_values
                     THEN EscapeValue(a, a.keys[i], a.dict[a.keys[i]])
                     ELSE a.dict[a.keys[i]])]
        items == keyed \o a.nokeys
                 \o (IF a.trailing_semicolon THEN <<(<<>>)>> ELSE <<>>)
    IN  Join(items, ";")

\* The characters of the attribute texts drawn as input
AttrLexemes == {"x", "Parent", "3", "B", "=", ";", ",", "%", " "}

AttrInit ==
    /\ attr_pc = "new"
    /\ attribute_data \in SeqsUpTo(AttrLexemes, MaxAttrLen)
    /\ attrs = NewAttributes
    /\ attr_str = <<>>

AttrIdle ==
    /\ attr_pc = "off"
    /\ attribute_data = <<>>
    /\ attrs = NewAttributes
    /\ attr_str = <<>>

\* attr = GFFAttributes(attribute_data)
AttrParse ==
    /\ attr_pc = "new"
    /\ attrs' = GFFAttributes(attribute_data)
    /\ attr_pc' = "parsed"
    /\ UNCHANGED <<attribute_data, attr_str>>
    /\ KeepAllBut("attr")

\* str(attr)
AttrStr ==
    /\ attr_pc = "parsed"
    /\ attr_str' = AttributesRepr(attrs)
    /\ attr_pc' = "printed"
    /\ UNCHANGED <<attribute_data, attrs>>
    /\ KeepAllBut("attr")

(***************************************************************************)
(* GTFAttributes (GTFFile.py): the GTF attribute codec                     *)
(***************************************************************************)
\* GTFAttributes(): the object before any attribute is stored.  A value of
\* __attributes is [list, items]: one text (list FALSE) or a list of texts.
NewGTFAttributes == [keys |-> <<>>, dict |-> <<>>, quotes |-> {}]

\* value.startswith('"') and value.endswith('"')
IsQuoted(value) ==
    value # <<>> /\ Head(value) = "\"" /\ value[Len(value)] = "\""

\* value[1:-1]
Unquoted(value) == SubSeq(value, 2, Len(value) - 1)

\* the else branch of "if key not in self": the value joins the list
AppendValue(stored, value) ==
    [list |-> TRUE, items |-> Append(stored.items, value)]

\* GTFAttributes.__init__: the loop over the unkeyed tokens
RECURSIVE StoreGTF(_, _)
StoreGTF(tokens, a) ==
    IF tokens = <<>> THEN a
    ELSE LET attr   == Head(tokens)
             key    == Split(attr, " ")[1]
             value0 == Join(Tail(Split(attr, " ")), " ")
             value  == IF IsQuoted(value0) THEN Unquoted(value0) ELSE value0
             od     == [keys |-> a.keys, dict |-> a.dict]
             od1    == IF ~ODContains(od, key)
                       THEN ODSet(od, key,
                                  [list |-> FALSE, items |-> <<value>>])
                       ELSE ODSet(od, key, AppendValue(a.dict[key], value))
         IN  StoreGTF(Tail(tokens),
                      [keys |-> od1.keys, dict |-> od1.dict,
                       quotes |-> IF IsQuoted(value0)
                                  THEN a.quotes \cup {key} ELSE a.quotes])

\* GTFAttributes(attribute_data)
GTFAttributes(data) ==
    StoreGTF(GFFAttributes(data).nokeys, NewGTFAttributes)

\* GTFAttributes.__repr__: the segments of one key
GTFSegments(a, key) ==
    LET quotes == IF key \in a.quotes THEN <<"\"">> ELSE <<>>
        values == a.dict[key].items
    IN  [i \in 1..Len(values) |->
            key \o <<" ">> \o quotes \o values[i] \o quotes \o <<";">>]

\* GTFAttributes.__repr__
GTFRepr(a) ==
    Join(Flatten([i \in 1..Len(a.keys) |-> GTFSegments(a, a.keys[i])]), " ")

\* The keys and the values of the segments drawn as input: plain and quoted
\* values, a quoted value of two words, a value holding '=' and one holding
\* a percent code
GtfKeys == {<<"a">>, <<"b">>}

GtfValues ==
    {<<"1">>, <<"2">>, <<"\"", "1", "\"">>, <<"\"", "1", " ", "2", "\"">>,
     <<"\"", "x", "=", "1", "\"">>, <<"\"", "%", "3", "B", "\"">>}

GtfSegmentKinds ==
    {k \o <<" ">> \o v \o <<";">> : k \in GtfKeys, v \in GtfValues}

\* The attribute strings of the GTF grammar: 'key value;' segments separated
\* by one space
GtfStrings ==
    {Join(segs, " ") : segs \in SeqsUpTo(GtfSegmentKinds, MaxGtfSegments)}

GtfInit ==
    /\ gtf_pc = "new"
    /\ gtf_attribute_data \in GtfStrings
    /\ gtf_attrs = NewGTFAttributes
    /\ gtf_str = <<>>

GtfIdle ==
    /\ gtf_pc = "off"
    /\ gtf_attribute_data = <<>>
    /\ gtf_attrs = NewGTFAttributes
    /\ gtf_str = <<>>

\* attr = GTFAttributes(attribute_data)
GtfParse ==
    /\ gtf_pc = "new"
    /\ gtf_attrs' = GTFAttributes(gtf_attribute_data)
    /\ gtf_pc' = "parsed"
    /\ UNCHANGED <<gtf_attribute_data, gtf_str>>
    /\ KeepAllBut("gtf")

\* str(attr)
GtfStr ==
    /\ gtf_pc = "parsed"
    /\ gtf_str' = GTFRepr(gtf_attrs)
    /\ gtf_pc' = "printed"
    /\ UNCHANGED <<gtf_attribute_data, gtf_attrs>>
    /\ KeepAllBut("gtf")

(***************************************************************************)
(* GFFInsertMissingGenes (clean/sgd.py)                                    *)
(***************************************************************************)
\* A GFF data line with all nine columns
FullLine(seqname, source, feature, start, end, score, strand, frame, attributes) ==
    [seqname |-> seqname, source |-> source, feature |-> feature,
     start |-> start, end |-> end, score |-> score, strand |-> strand,
     frame |-> frame, attributes |-> attributes]

\* A line of the mapping file; start is the text of the column
MappingGene(name, chr, start, end, strand) ==
    [name |-> name, chr |-> chr, start |-> start, end |-> end,
     strand |-> strand]

\* "Make a list of all SGDs in current GFF file"
RECURSIVE ListSGDs(_, _)
ListSGDs(rest, sgds) ==
    IF rest = <<>> THEN sgds
    ELSE LET attributes == Head(rest).attributes
         IN  ListSGDs(Tail(rest),
                 IF "SGD" \in DOMAIN attributes
                    /\ attributes["SGD"] \notin Range(sgds)
                 THEN Append(sgds, attributes["SGD"]) ELSE sgds)

\* "Find the insertion point": the loop over j, i starting from -1
RECURSIVE InsertionPoint(_, _, _, _, _)
InsertionPoint(data_lines, chrom, start, j, i) ==
    IF j >= Len(data_lines) THEN i
    ELSE InsertionPoint(data_lines, chrom, start, j + 1,
             IF data_lines[j + 1].seqname = chrom
                /\ data_lines[j + 1].start < start
             THEN j + 1 ELSE i)

\* python: list.insert(i, x), i counted from 0, a negative i from the end
ListInsert(list, i, x) ==
    LET n == Len(list)
        k == IF i < 0 THEN (IF n + i < 0 THEN 0 ELSE n + i)
             ELSE IF i > n THEN n ELSE i
    IN  SubSeq(list, 1, k) \o <<x>> \o SubSeq(list, k + 1, n)

\* the line that is inserted for a gene of the mapping file
MissingLine(gene) ==
    FullLine(gene.chr, "GFFcleaner", "CDS", IntVal(gene.start), gene.end, "0",
             gene.strand, "0",
             Attributes(<<"ID", "SGD", "Gene", "Parent">>,
                        <<(<<"CDS", ":">> \o gene.name \o <<":", "1">>),
                          gene.name, gene.name, gene.name>>))

\* a pass that inserts the gene whether or not its name is among the SGDs
InsertGeneAlways(data_lines, sgds, gene) ==
    IF ~IntOk(gene.start) THEN data_lines
    ELSE ListInsert(data_lines,
                    InsertionPoint(data_lines, gene.chr, IntVal(gene.start),
                                   0, 0 - 1),
                    MissingLine(gene))

\* One pass of "for gene in mapping_data": the GFF data after it
InsertGene(data_lines, sgds, gene) ==
    IF ~IntOk(gene.start) THEN data_lines
    ELSE IF gene.name \in Range(sgds) THEN data_lines
    ELSE ListInsert(data_lines,
                    InsertionPoint(data_lines, gene.chr, IntVal(gene.start),
                                   0, 0 - 1),
                    MissingLine(gene))

NoStep == [inserted |-> FALSE, i |-> 0, before |-> <<>>]

\* The GFF lines and the mapping genes drawn as input
InsChroms == {"chr1", "chr2"}
InsStarts == {10, 30}

InsLineKinds ==
    {FullLine(c, "Test", "CDS", st, st + 5, "0", "-", "0",
              Attributes(<<"ID">>, <<(<<"X">>)>>)) :
        c \in InsChroms, st \in InsStarts}
    \cup {FullLine(c, "Test", "CDS", st, st + 5, "0", "-", "0",
                   Attributes(<<"ID", "SGD">>,
                              <<(<<"CDS", ":", "A", ":", "1">>), <<"A">> >>)) :
             c \in InsChroms, st \in InsStarts}

InsGeneList ==
    <<MappingGene(<<"B">>, "chr1", <<"2", "0">>, 25, "-"),
      MappingGene(<<"C">>, "chr1", <<"5">>, 8, "-"),
      MappingGene(<<"A">>, "chr1", <<"2", "0">>, 25, "-"),
      MappingGene(<<"B">>, "chr2", <<"x">>, 25, "-"),
      MappingGene(<<"B">>, "chr1", <<"4", "0">>, 45, "+")>>

InsInit ==
    /\ ins_pc = "new"
    /\ ins_input \in SeqsUpTo(InsLineKinds, MaxInsLines)
    /\ ins_gff_data = ins_input
    /\ ins_mapping \in SubLists(InsGeneList)
    /\ ins_sgds = <<>>
    /\ ins_done = 0
    /\ ins_step = NoStep

InsIdle ==
    /\ ins_pc = "off"
    /\ ins_input = <<>>
    /\ ins_gff_data = <<>>
    /\ ins_mapping = <<>>
    /\ ins_sgds = <<>>
    /\ ins_done = 0
    /\ ins_step = NoStep

\* GFFInsertMissingGenes(gff_data, mapping_data): the list of SGDs
InsertStart ==
    /\ ins_pc = "new"
    /\ ins_sgds' = ListSGDs(ins_gff_data, <<>>)
    /\ ins_pc' = "looping"
    /\ UNCHANGED <<ins_input, ins_gff_data, ins_mapping, ins_done, ins_step>>
    /\ KeepAllBut("ins")

\* one pass of "for gene in mapping_data"
InsertStep ==
    /\ ins_pc = "looping"
    /\ ins_done < Len(ins_mapping)
    /\ LET gene == ins_mapping[ins_done + 1]
           after == InsertGene(ins_gff_data, ins_sgds, gene)
       IN  /\ ins_gff_data' = after
           /\ ins_step' =
                 IF after = ins_gff_data THEN NoStep
                 ELSE [inserted |-> TRUE,
                       i |-> InsertionPoint(ins_gff_data, gene.chr,
                                            IntVal(gene.start), 0, 0 - 1),
                       before |-> ins_gff_data]
    /\ ins_done' = ins_done + 1
    /\ UNCHANGED <<ins_pc, ins_input, ins_mapping, ins_sgds>>
    /\ KeepAllBut("ins")

\* "return gff_data"
InsertFinish ==
    /\ ins_pc = "looping"
    /\ ins_done = Len(ins_mapping)
    /\ ins_pc' = "returned"
    /\ UNCHANGED <<ins_input, ins_gff_data, ins_mapping, ins_sgds, ins_done,
                   ins_step>>
    /\ KeepAllBut("ins")

(***************************************************************************)
(* GFFGroupSGDs (clean/sgd.py)                                             *)
(***************************************************************************)
\* "for data0 in gff_data[next_ln:next_ln+5]": the length of the slice
LookAhead == 5

\* data_lines with the ID attribute of line p set to the text of idx
SetID(data_lines, p, idx) ==
    [data_lines EXCEPT ![p].attributes =
        [k \in DOMAIN @ \cup {"ID"} |-> IF k = "ID" THEN GFFIDRepr(idx) ELSE @[k]]]

\* GFFGroupSGDs: the loop over the lines q..last that follow line p, whose
\* ID is idx; [lines, raised]
RECURSIVE GroupLookAhead(_, _, _, _, _)
GroupLookAhead(data_lines, q, last, sgd, idx) ==
    IF q > last THEN [lines |-> data_lines, raised |-> FALSE]
    ELSE LET attr0 == data_lines[q].attributes
             idx0  == GFFID(attr0["ID"])
         IN  IF "SGD" \notin DOMAIN attr0
             THEN [lines |-> data_lines, raised |-> TRUE]
             ELSE IF attr0["SGD"] # sgd
             THEN GroupLookAhead(data_lines, q + 1, last, sgd, idx)
             ELSE IF "ID" \notin DOMAIN attr0 \/ idx0.raised
             THEN [lines |-> data_lines, raised |-> TRUE]
             ELSE [lines |-> SetID(data_lines, q,
                                   [code |-> IF idx0.code # <<>> THEN idx0.code
                                             ELSE <<"CDS">>,
                                    name |-> sgd,
                                    index |-> idx.index + 1,
                                    raised |-> FALSE]),
                   raised |-> FALSE]

\* "Check the ID" that sets code, name and index whatever the code was
ResetID(idx, sgd) ==
    [code |-> <<"CDS">>, name |-> sgd, index |-> 1, raised |-> FALSE]

\* GFFGroupSGDs: the ID of a line with a non-blank SGD, as "Check the ID"
\* leaves it
CheckedID(idx, sgd) ==
    IF idx.code # <<"CDS">>
    THEN [code |-> <<"CDS">>, name |-> sgd, index |-> 1, raised |-> FALSE]
    ELSE idx

\* GFFGroupSGDs: one pass of "for data in gff_data", for line p
GroupPass(data_lines, p) ==
    LET attributes == data_lines[p].attributes
        sgd  == IF "SGD" \in DOMAIN attributes THEN attributes["SGD"] ELSE <<>>
        idx  == CheckedID(GFFID(attributes["ID"]), sgd)
        last == IF p + LookAhead > Len(data_lines) THEN Len(data_lines)
                ELSE p + LookAhead
    IN  IF sgd = <<>> THEN [lines |-> data_lines, raised |-> FALSE]
        ELSE IF "ID" \notin DOMAIN attributes \/ GFFID(attributes["ID"]).raised
        THEN [lines |-> data_lines, raised |-> TRUE]
        ELSE GroupLookAhead(IF GFFID(attributes["ID"]).code # <<"CDS">>
                            THEN SetID(data_lines, p, idx) ELSE data_lines,
                            p + 1, last, sgd, idx)

\* The lines drawn as input: with and without ID and SGD, a blank SGD, IDs
\* that are a bare name or carry a code
GsIDs == {<<"X">>, <<"CDS", ":", "A", ":", "1">>, <<"CDS", ":", "B", ":", "3">>,
          <<"gene", ":", "A", ":", "2">>}
GsSGDs == {<<>>, <<"A">>, <<"B">>}

GsLineKinds ==
    {GroupLine(i) : i \in GsIDs}
    \cup {DataLine(0, "chr1", "CDS", 1, 2, "+", <<>>)}
    \cup {DataLine(0, "chr1", "CDS", 1, 2, "+",
                   Attributes(<<"SGD">>, <<sgd>>)) : sgd \in GsSGDs}
    \cup {DataLine(0, "chr1", "CDS", 1, 2, "+",
                   Attributes(<<"ID", "SGD">>, <<i, sgd>>)) :
             i \in GsIDs, sgd \in GsSGDs}

\* Seven lines: SGD A on the first and on the last, B in between
GsExample ==
    [i \in 1..7 |->
        DataLine(0, "chr1", "CDS", 1, 2, "+",
                 Attributes(<<"ID", "SGD">>,
                            <<(<<"X">>),
                              IF i \in {1, 7} THEN <<"A">> ELSE <<"B">> >>))]

\* Six lines: SGD A on the first and on the last, B in between
GsExampleSix ==
    [i \in 1..6 |->
        DataLine(0, "chr1", "CDS", 1, 2, "+",
                 Attributes(<<"ID", "SGD">>,
                            <<(<<"X">>),
                              IF i \in {1, 6} THEN <<"A">> ELSE <<"B">> >>))]

GsInit ==
    /\ gs_pc = "new"
    /\ \E lines \in SeqsUpTo(GsLineKinds, MaxGsLines)
                      \cup {GsExample, GsExampleSix} :
          gs_input = Numbered(lines)
    /\ gs_gff_data = gs_input
    /\ gs_next_ln = 0
    /\ gs_first = <<>>

GsIdle ==
    /\ gs_pc = "off"
    /\ gs_input = <<>>
    /\ gs_gff_data = <<>>
    /\ gs_next_ln = 0
    /\ gs_first = <<>>

\* GFFGroupSGDs(gff_data): "next_ln = 0"
GroupStart ==
    /\ gs_pc = "new"
    /\ gs_pc' = "looping"
    /\ gs_next_ln' = 0
    /\ UNCHANGED <<gs_input, gs_gff_data, gs_first>>
    /\ KeepAllBut("gs")

\* one pass of "for data in gff_data"; an exception ends the call
GroupStep ==
    /\ gs_pc = "looping"
    /\ gs_next_ln < Len(gs_gff_data)
    /\ LET pass == GroupPass(gs_gff_data, gs_next_ln + 1)
       IN  /\ gs_gff_data' = pass.lines
           /\ gs_pc' = IF pass.raised THEN "raised" ELSE "looping"
    /\ gs_next_ln' = gs_next_ln + 1
    /\ UNCHANGED <<gs_input, gs_first>>
    /\ KeepAllBut("gs")

\* "return gff_data"
GroupFinish ==
    /\ gs_pc = "looping"
    /\ gs_next_ln = Len(gs_gff_data)
    /\ gs_pc' = "returned"
    /\ UNCHANGED <<gs_input, gs_gff_data, gs_next_ln, gs_first>>
    /\ KeepAllBut("gs")

\* GFFGroupSGDs(gff_data) called again on the data that the first call
\* returned: "next_ln = 0"
GroupAgainStart ==
    /\ gs_pc = "returned"
    /\ gs_pc' = "looping again"
    /\ gs_next_ln' = 0
    /\ gs_first' = gs_gff_data
    /\ UNCHANGED <<gs_input, gs_gff_data>>
    /\ KeepAllBut("gs")

\* one pass of "for data in gff_data" of the second call
GroupAgainStep ==
    /\ gs_pc = "looping again"
    /\ gs_next_ln < Len(gs_gff_data)
    /\ LET pass == GroupPass(gs_gff_data, gs_next_ln + 1)
       IN  /\ gs_gff_data' = pass.lines
           /\ gs_pc' = IF pass.raised THEN "raised again"
                       ELSE "looping again"
    /\ gs_next_ln' = gs_next_ln + 1
    /\ UNCHANGED <<gs_input, gs_first>>
    /\ KeepAllBut("gs")

\* "return gff_data" of the second call
GroupAgainFinish ==
    /\ gs_pc = "looping again"
    /\ gs_next_ln = Len(gs_gff_data)
    /\ gs_pc' = "returned again"
    /\ UNCHANGED <<gs_input, gs_gff_data, gs_next_ln, gs_first>>
    /\ KeepAllBut("gs")

(***************************************************************************)
(* OrderedDictionary as an object: set, get, delete and insert             *)
(***************************************************************************)
OdKeys == {"a", "b", "c"}

OdValues == {"u", "v"}

\* the outcome of an operation: the dictionary afterwards and what the call
\* gave back ("KeyError" when it raised, "None" when it returns nothing)
Outcome(d, out) == [d |-> d, out |-> out]

\* OrderedDictionary.__getitem__
ODGet(d, key) ==
    IF ~ODContains(d, key) THEN Outcome(d, "KeyError")
    ELSE Outcome(d, d.dict[key])

\* OrderedDictionary.__delitem__: keys.index raises ValueError for a key
\* that is not there, which is turned into KeyError
ODDelete(d, key) ==
    IF ~ODContains(d, key) THEN Outcome(d, "KeyError")
    ELSE Outcome(ODDel(d, key), "None")

\* insert that stores the value whether or not the key is there
ODInsertAnyway(d, i, key, value) ==
    Outcome([keys |-> ListInsert(d.keys, i, key),
             dict |-> [k \in DOMAIN d.dict \cup {key} |->
                          IF k = key THEN value ELSE d.dict[k]]], "None")

\* OrderedDictionary.insert
ODInsert(d, i, key, value) ==
    IF ~ODContains(d, key)
    THEN Outcome([keys |-> ListInsert(d.keys, i, key),
                  dict |-> [k \in DOMAIN d.dict \cup {key} |->
                               IF k = key THEN value ELSE d.dict[k]]], "None")
    ELSE Outcome(d, "KeyError")

\* the positions a caller passes to insert: every position of the list,
\* one past either end, and -1
OdPositions(d) == -1 .. Len(d.keys) + 1

NoOp == [name |-> "none", key |-> "", i |-> 0, value |-> ""]

\* OrderedDictionary.__init__
OdInit ==
    /\ od_pc = "live"
    /\ od_dict = ODEmpty
    /\ od_before = ODEmpty
    /\ od_op = NoOp
    /\ od_out = "None"

OdIdle ==
    /\ od_pc = "off"
    /\ od_dict = ODEmpty
    /\ od_before = ODEmpty
    /\ od_op = NoOp
    /\ od_out = "None"

OdApply(op, outcome) ==
    /\ od_before' = od_dict
    /\ od_op' = op
    /\ od_dict' = outcome.d
    /\ od_out' = outcome.out
    /\ UNCHANGED od_pc
    /\ KeepAllBut("od")

\* d[key] = value
OdSetItem ==
    /\ od_pc = "live"
    /\ \E key \in OdKeys, value \in OdValues :
          OdApply([name |-> "set", key |-> key, i |-> 0, value |-> value],
                  Outcome(ODSet(od_dict, key, value), "None"))

\* d[key]
OdGetItem ==
    /\ od_pc = "live"
    /\ \E key \in OdKeys :
          OdApply([name |-> "get", key |-> key, i |-> 0, value |-> ""],
                  ODGet(od_dict, key))

\* del(d[key])
OdDelItem ==
    /\ od_pc = "live"
    /\ \E key \in OdKeys :
          OdApply([name |-> "del", key |-> key, i |-> 0, value |-> ""],
                  ODDelete(od_dict, key))

\* d.insert(i,key,value)
OdInsertItem ==
    /\ od_pc = "live"
    /\ \E key \in OdKeys, value \in OdValues, i \in OdPositions(od_dict) :
          OdApply([name |-> "insert", key |-> key, i |-> i, value |-> value],
                  ODInsert(od_dict, i, key, value))

(***************************************************************************)
(* GFFAddIDAttributes (clean/generic.py)                                   *)
(***************************************************************************)
\* python: "%08d" % n
ZeroPad8(n) ==
    LET digits == DecStr(n)
    IN  IF Len(digits) >= 8 THEN digits
        ELSE [i \in 1..(8 - Len(digits)) |-> "0"] \o digits

\* "%s:NOPARENT:%08d" % (record['feature'],count)
NoParentID(feature, count) ==
    <<feature, ":", "NOPARENT", ":">> \o ZeroPad8(count)

\* "%s:%s:%08d" % (record['feature'],attributes['Parent'],count)
ParentID(feature, parent, count) ==
    <<feature, ":">> \o parent \o <<":">> \o ZeroPad8(count)

\* a record: its feature type and its attributes (keys in order, values)
FeatureRecord(feature, keys, values) ==
    [feature |-> feature,
     attributes |-> [keys |-> keys, dict |-> Attributes(keys, values)]]

\* one pass of "for record in gff_data": count goes up for every record
\* without an ID; the ID is inserted in the branch of the records that
\* have a Parent
AddID(record, count) ==
    LET attributes == record.attributes
    IN  IF ~ODContains(attributes, "ID")
        THEN IF ~ODContains(attributes, "Parent")
             THEN [record |-> record, count |-> count + 1]
             ELSE [record |-> [record EXCEPT !.attributes =
                       ODInsert(attributes, 0, "ID",
                                ParentID(record.feature,
                                         attributes.dict["Parent"],
                                         count + 1)).d],
                   count |-> count + 1]
        ELSE [record |-> record, count |-> count]

AidFeatures == {"exon", "CDS"}

\* attributes drawn for a record: with and without ID and Parent, the ID
\* first or last
AidAttributeKinds ==
    {[keys |-> <<>>, values |-> <<>>],
     [keys |-> <<"Name">>, values |-> <<(<<"N">>)>>],
     [keys |-> <<"ID">>, values |-> <<(<<"X">>)>>],
     [keys |-> <<"Parent">>, values |-> <<(<<"P">>)>>],
     [keys |-> <<"Parent">>, values |-> <<(<<"Q">>)>>],
     [keys |-> <<"ID", "Parent">>, values |-> <<(<<"X">>), <<"P">> >>],
     [keys |-> <<"Parent", "ID">>, values |-> <<(<<"P">>), <<"X">> >>],
     [keys |-> <<"Name", "Parent">>, values |-> <<(<<"N">>), <<"P">> >>]}

AidRecordKinds ==
    {FeatureRecord(f, a.keys, a.values) :
        f \in AidFeatures, a \in AidAttributeKinds}

AidInit ==
    /\ aid_pc = "new"
    /\ aid_input \in SeqsUpTo(AidRecordKinds, MaxAidLines)
    /\ aid_gff_data = aid_input
    /\ aid_count = 0
    /\ aid_next = 0

AidIdle ==
    /\ aid_pc = "off"
    /\ aid_input = <<>>
    /\ aid_gff_data = <<>>
    /\ aid_count = 0
    /\ aid_next = 0

\* GFFAddIDAttributes(gff_data): "count = 0"
AddIDsStart ==
    /\ aid_pc = "new"
    /\ aid_pc' = "looping"
    /\ aid_count' = 0
    /\ UNCHANGED <<aid_input, aid_gff_data, aid_next>>
    /\ KeepAllBut("aid")

\* one pass of "for record in gff_data"
AddIDsStep ==
    /\ aid_pc = "looping"
    /\ aid_next < Len(aid_gff_data)
    /\ LET pass == AddID(aid_gff_data[aid_next + 1], aid_count)
       IN  /\ aid_gff_data' =
                  [aid_gff_data EXCEPT ![aid_next + 1] = pass.record]
           /\ aid_count' = pass.count
    /\ aid_next' = aid_next + 1
    /\ UNCHANGED <<aid_pc, aid_input>>
    /\ KeepAllBut("aid")

\* "return gff_data"
AddIDsFinish ==
    /\ aid_pc = "looping"
    /\ aid_next = Len(aid_gff_data)
    /\ aid_pc' = "returned"
    /\ UNCHANGED <<aid_input, aid_gff_data, aid_count, aid_next>>
    /\ KeepAllBut("aid")

(***************************************************************************)
(* GFFUpdateAttributes (clean/generic.py)                                  *)
(***************************************************************************)
\* the attributes of a record: keys in order, their values, the nokeys list
KeyedAttributes(keys, values, nokeys) ==
    [keys |-> keys, dict |-> Attributes(keys, values), nokeys |-> nokeys]

\* the arguments of a call
UpdateArgs(update_keys, exclude_keys, no_empty_values, exclude_nokeys) ==
    [update_keys |-> update_keys, exclude_keys |-> exclude_keys,
     no_empty_values |-> no_empty_values, exclude_nokeys |-> exclude_nokeys]

\* "attributes[key] = new_value" / "del(attributes[key])" on attributes
\* that carry a nokeys list
SetAttribute(a, key, value) ==
    LET d == ODSet([keys |-> a.keys, dict |-> a.dict], key, value)
    IN  [a EXCEPT !.keys = d.keys, !.dict = d.dict]

DelAttribute(a, key) ==
    LET d == ODDel([keys |-> a.keys, dict |-> a.dict], key)
    IN  [a EXCEPT !.keys = d.keys, !.dict = d.dict]

\* one pass of "for key in attributes.keys()"
UpdateKey(a, key, args) ==
    IF key \in args.exclude_keys THEN DelAttribute(a, key)
    ELSE IF key \notin DOMAIN args.update_keys THEN a
    ELSE LET lookup_key == args.update_keys[key]
         IN  IF lookup_key \notin Range(a.keys) THEN a
             ELSE LET new_value == a.dict[lookup_key]
                  IN  IF args.no_empty_values /\ new_value = <<>> THEN a
                      ELSE SetAttribute(a, key, new_value)

\* "for key in attributes.keys()": keys is the copy of the key list that
\* was taken before the loop
RECURSIVE UpdateKeys(_, _, _)
UpdateKeys(a, keys, args) ==
    IF keys = <<>> THEN a
    ELSE UpdateKeys(UpdateKey(a, Head(keys), args), Tail(keys), args)

\* the body of "for data in gff_data"
UpdateRecord(a, args) ==
    LET updated == UpdateKeys(a, a.keys, args)
    IN  IF args.exclude_nokeys THEN [updated EXCEPT !.nokeys = <<>>]
        ELSE updated

UpdKeys == {"a", "b", "c"}

\* the key lists drawn for a record
UpdKeyLists ==
    {<<>>, <<"a">>, <<"b">>, <<"a", "b">>, <<"b", "a">>, <<"a", "c">>,
     <<"b", "c">>, <<"a", "b", "c">>, <<"b", "a", "c">>, <<"c", "a", "b">>}

\* the values drawn for a key: its own value, or the empty string
UpdValuesOf(key) ==
    IF key = "a" THEN {<<"1">>}
    ELSE IF key = "b" THEN {<<"2">>, <<>>} ELSE {<<"3">>, <<>>}

\* the attributes drawn for a record; one kind has an item without key
UpdRecordKinds ==
    UNION {{KeyedAttributes(keys, values, <<>>) :
               values \in {v \in [1..Len(keys) ->
                                     {<<"1">>, <<"2">>, <<"3">>, <<>>}] :
                              \A i \in 1..Len(keys) :
                                  v[i] \in UpdValuesOf(keys[i])}} :
           keys \in UpdKeyLists}
    \cup {KeyedAttributes(<<"a", "b">>, <<(<<"1">>), <<"2">> >>,
                          <<(<<"t">>)>>)}

\* the mappings drawn for update_keys: any mapping of 'a' and 'b'
UpdMappings == UNION {[D -> UpdKeys] : D \in SUBSET {"a", "b"}}

UpdInit ==
    /\ upd_pc = "new"
    /\ upd_input \in SeqsUpTo(UpdRecordKinds, MaxUpdLines)
    /\ upd_gff_data = upd_input
    /\ \E update_keys \in UpdMappings, exclude_keys \in {{}, {"c"}},
          no_empty_values \in BOOLEAN, exclude_nokeys \in BOOLEAN :
          upd_args = UpdateArgs(update_keys, exclude_keys, no_empty_values,
                                exclude_nokeys)
    /\ upd_next = 0

UpdIdle ==
    /\ upd_pc = "off"
    /\ upd_input = <<>>
    /\ upd_gff_data = <<>>
    /\ upd_args = UpdateArgs(<<>>, {}, TRUE, FALSE)
    /\ upd_next = 0

\* GFFUpdateAttributes(gff_data,...): the call is made
UpdateStart ==
    /\ upd_pc = "new"
    /\ upd_pc' = "looping"
    /\ UNCHANGED <<upd_input, upd_gff_data, upd_args, upd_next>>
    /\ KeepAllBut("upd")

\* one pass of "for data in gff_data"
UpdateStep ==
    /\ upd_pc = "looping"
    /\ upd_next < Len(upd_gff_data)
    /\ upd_gff_data' =
          [upd_gff_data EXCEPT ![upd_next + 1] =
              UpdateRecord(upd_gff_data[upd_next + 1], upd_args)]
    /\ upd_next' = upd_next + 1
    /\ UNCHANGED <<upd_pc, upd_input, upd_args>>
    /\ KeepAllBut("upd")

\* the loop is over and the function returns
UpdateFinish ==
    /\ upd_pc = "looping"
    /\ upd_next = Len(upd_gff_data)
    /\ upd_pc' = "returned"
    /\ UNCHANGED <<upd_input, upd_gff_data, upd_args, upd_next>>
    /\ KeepAllBut("upd")

(***************************************************************************)
(* Specifications                                                          *)
(***************************************************************************)
InitFor(c) ==
    /\ IF c = "id" THEN IdInit ELSE IdIdle
    /\ IF c = "grp" THEN GrpInit ELSE GrpIdle
    /\ IF c = "dup" THEN DupInit ELSE IF c = "res" THEN ResInit ELSE SgdIdle
    /\ IF c = "ann" THEN AnnInit
       ELSE IF c = "annot" THEN AnnotInit ELSE AnnIdle
    /\ IF c = "attr" THEN AttrInit ELSE AttrIdle
    /\ IF c = "gtf" THEN GtfInit ELSE GtfIdle
    /\ IF c = "ins" THEN InsInit ELSE InsIdle
    /\ IF c = "gs" THEN GsInit ELSE GsIdle
    /\ IF c = "od" THEN OdInit ELSE OdIdle
    /\ IF c = "aid" THEN AidInit ELSE AidIdle
    /\ IF c = "upd" THEN UpdInit ELSE UpdIdle

NextDup == GetDuplicates

SpecDup == InitFor("dup") /\ [][NextDup]_vars

NextResolve == GetDuplicates \/ ResolveStep \/ ResolveFinish

SpecResolve == InitFor("res") /\ [][NextResolve]_vars

NextAttr == AttrParse \/ AttrStr

SpecAttr == InitFor("attr") /\ [][NextAttr]_vars

NextInsert == InsertStart \/ InsertStep \/ InsertFinish

SpecInsert == InitFor("ins") /\ [][NextInsert]_vars

NextGroupSGDs ==
    \/ GroupStart \/ GroupStep \/ GroupFinish
    \/ GroupAgainStart \/ GroupAgainStep \/ GroupAgainFinish

SpecGroupSGDs == InitFor("gs") /\ [][NextGroupSGDs]_vars

NextGtf == GtfParse \/ GtfStr

SpecGtf == InitFor("gtf") /\ [][NextGtf]_vars

NextOD == OdSetItem \/ OdGetItem \/ OdDelItem \/ OdInsertItem

SpecOD == InitFor("od") /\ [][NextOD]_vars

NextAddIDs == AddIDsStart \/ AddIDsStep \/ AddIDsFinish

SpecAddIDs == InitFor("aid") /\ [][NextAddIDs]_vars

NextUpdate == UpdateStart \/ UpdateStep \/ UpdateFinish

SpecUpdate == InitFor("upd") /\ [][NextUpdate]_vars

NextAnnotate == AnnLoad \/ AnnotationCall \/ AncestorHop \/ AnnotationReturn

SpecAnnotate == InitFor("annot") /\ [][NextAnnotate]_vars

NextLookup == AnnLoad \/ AncestorCall \/ AncestorHop \/ AncestorEnd

SpecLookup == InitFor("ann") /\ [][NextLookup]_vars

\* The call runs on: a step of the while loop that can be taken is taken
SpecLookupLive ==
    SpecLookup /\ WF_vars(AncestorHop) /\ WF_vars(AncestorEnd)

NextID == IdFormat \/ IdParse

SpecID == InitFor("id") /\ [][NextID]_vars

NextGroup == GrpCall

SpecGroup == InitFor("grp") /\ [][NextGroup]_vars

(***************************************************************************)
(* Claims about GFFID                                                      *)
(***************************************************************************)
NoColon(s) == \A i \in 1..Len(s) : s[i] # ":"

SameTriple(a, b) ==
    /\ ~b.raised
    /\ a.code = b.code
    /\ a.name = b.name
    /\ a.index = b.index

\* C8 (as stated): for every (code, name, index) with code empty or not, name
\* free of ':' and index >= 0, GFFID(str(id)) has the same code, name and
\* index as id.
C8_RoundTripAsStated ==
    (id_pc = "parsed" /\ NoColon(id_given.name) /\ id_given.index >= 0)
        => SameTriple(id_given, id_parsed)

\* C8 (amended): the round trip holds when the name is free of ':', the index
\* is >= 0 and either the code is non-empty and free of ':', or the code is
\* empty and the index is 0 (the bare-name form carries no index).
C8_RoundTrip ==
    (/\ id_pc = "parsed"
     /\ NoColon(id_given.name)
     /\ id_given.index >= 0
     /\ NoColon(id_given.code)
     /\ (id_given.code = <<>> => id_given.index = 0))
        => SameTriple(id_given, id_parsed)

\* C8 witness: a three-part identifier with a two-digit index went through
\* str() and GFFID() and came back whole.
C8_Witness ==
    /\ id_pc = "parsed"
    /\ id_given.code = <<"CDS">>
    /\ id_given.name = <<"A">>
    /\ id_given.index = 10
    /\ id_text = <<"CDS", ":", "A", ":", "1", "0">>
    /\ SameTriple(id_given, id_parsed)

(***************************************************************************)
(* Claims about GroupByID                                                  *)
(***************************************************************************)
IndexOf(data) == IDOf(data).index

IndicesOf(lines) == [i \in 1..Len(lines) |-> IndexOf(lines[i])]

GroupReturned == grp_pc = "done" /\ ~grp_result.raised

GroupIndices == [k \in 1..Len(grp_result.subsets) |->
                    IndicesOf(grp_result.subsets[k])]

\* C6 (as stated): indices [1,2,3,1,5,6] yield the groups [1,2,3] and [5,6].
C6_GroupingLawAsStated ==
    (GroupReturned /\ IndicesOf(grp_data) = <<1, 2, 3, 1, 5, 6>>)
        => GroupIndices = <<(<<1, 2, 3>>), (<<5, 6>>)>>

\* C6 (amended): indices [1,2,3,1,5,6] yield three groups, [1,2,3], [1] and
\* [5,6]: the line of index 1 after index 3 is a group of its own.
C6_GroupingLaw ==
    (GroupReturned /\ IndicesOf(grp_data) = <<1, 2, 3, 1, 5, 6>>)
        => GroupIndices = <<(<<1, 2, 3>>), (<<1>>), (<<5, 6>>)>>

\* C6 witness: GroupByID has returned for the lines of indices 1,2,3,1,5,6.
C6_Witness ==
    /\ GroupReturned
    /\ IndicesOf(grp_data) = <<1, 2, 3, 1, 5, 6>>
    /\ Len(grp_result.subsets) = 3

(***************************************************************************)
(* Claims about GFFGetDuplicateSGDs                                        *)
(***************************************************************************)
\* The lines of the file that carry the SGD value sgd, in file order
Carriers(sgd) ==
    SelectSeq(gff_data, LAMBDA d :
        "SGD" \in DOMAIN d.attributes /\ d.attributes["SGD"] = sgd)

\* The first line of the file that carries sgd
FirstCarrier(sgd) == Carriers(sgd)[1].lineno

\* Every value an SGD attribute can have here, and every key returned
SGDValues == {<<>>} \cup {<<n>> : n \in SGDNames} \cup Range(duplicates.keys)

NoRepeats(list) ==
    \A i, j \in 1..Len(list) : list[i] = list[j] => i = j

\* C7: GFFGetDuplicateSGDs returns exactly the non-blank SGD values carried
\* by at least two lines; each key maps to all lines with that SGD in file
\* order; keys are in order of first appearance.
C7_Duplicates ==
    sgd_pc = "resolving" =>
        /\ NoRepeats(duplicates.keys)
        /\ DOMAIN duplicates.dict = Range(duplicates.keys)
        /\ \A sgd \in SGDValues :
              sgd \in Range(duplicates.keys)
                  <=> (sgd # <<>> /\ Len(Carriers(sgd)) >= 2)
        /\ \A sgd \in Range(duplicates.keys) :
              /\ duplicates.dict[sgd] = Carriers(sgd)
              /\ Len(duplicates.dict[sgd]) >= 2
        /\ \A i, j \in 1..Len(duplicates.keys) :
              i < j => FirstCarrier(duplicates.keys[i])
                         < FirstCarrier(duplicates.keys[j])

\* C7 witness: a file with a line without SGD, a name carried once and a
\* name carried by two lines that are not adjacent gave exactly one key.
C7_Witness ==
    /\ sgd_pc = "resolving"
    /\ duplicates.keys = <<(<<"B">>)>>
    /\ Len(Carriers(<<"A">>)) = 1
    /\ \E i \in 1..Len(gff_data) : "SGD" \notin DOMAIN gff_data[i].attributes
    /\ \E i, j \in 1..Len(gff_data) :
          /\ j > i + 1
          /\ duplicates.dict[<<"B">>] = <<gff_data[i], gff_data[j]>>

(***************************************************************************)
(* Claims about GFFResolveDuplicateSGDs                                    *)
(***************************************************************************)
Occurrences(list, x) == Cardinality({i \in 1..Len(list) : list[i] = x})

VerdictLists == <<"resolved_sgds">> \o UnresolvedLists

\* How many times sgd is listed in the five verdict lists, all together
TimesListed(sgd) ==
    Occurrences(Flatten([k \in 1..5 |-> result[VerdictLists[k]]]), sgd)

\* C2: every key of duplicates appears in exactly one of the five verdict
\* lists, and exactly once.
C2_ExactlyOneVerdict ==
    sgd_pc = "returned" =>
        \A sgd \in Range(duplicates.keys) : TimesListed(sgd) = 1

\* C2 witness: the resolver returned for two duplicated names that ended in
\* different lists.
C2_Witness ==
    /\ sgd_pc = "returned"
    /\ Len(duplicates.keys) = 2
    /\ Len(result.resolved_sgds) = 1
    /\ Len(result.unresolved_sgds_no_overlaps) = 1

\* The run that the resolver kept for a resolved name: matches[0]
KeptRun(sgd) ==
    Matches(duplicates.dict[sgd], MappingGenes(mapping_data, sgd),
            OverlapMargin)[1]

\* C3: for every name classified as resolved, no line of the matched run is
\* in the discard list and every other line of that name's duplicates is.
C3_KeptRunNotDiscarded ==
    sgd_pc = "returned" =>
        \A sgd \in Range(result.resolved_sgds) :
            /\ \A i \in 1..Len(KeptRun(sgd)) :
                  KeptRun(sgd)[i] \notin Range(result.discard)
            /\ \A d \in Range(duplicates.dict[sgd]) \ Range(KeptRun(sgd)) :
                  d \in Range(result.discard)

\* C4: unresolved_sgds holds exactly the names of the four unresolved lists,
\* and none of them is in resolved_sgds.
C4_UnresolvedIsUnion ==
    sgd_pc = "returned" =>
        /\ \A sgd \in SGDValues :
              sgd \in Range(result.unresolved_sgds)
                  <=> \E k \in 1..4 : sgd \in Range(result[UnresolvedLists[k]])
        /\ Range(result.unresolved_sgds) \cap Range(result.resolved_sgds) = {}

\* C4 witness: the resolver returned with one name resolved and one name
\* unresolved because several runs matched.
C4_Witness ==
    /\ sgd_pc = "returned"
    /\ Len(result.resolved_sgds) = 1
    /\ Len(result.unresolved_sgds_multiple_matches) = 1
    /\ result.unresolved_sgds = result.unresolved_sgds_multiple_matches

(***************************************************************************)
(* Claims about GFFAttributes                                              *)
(***************************************************************************)
\* The characters that need no encoding
PlainChars == {"x", "Parent", "3", "B"}

\* The percent codes of the characters that need encoding
PercentCodes == {<<"%", "3", "B">>, <<"%", "3", "D">>, <<"%", "2", "C">>,
                 <<"%", "2", "5">>, <<"%", "B", "3">>, <<"%", "B", "B">>}

\* v is a percent-encoded text: plain characters, the characters of literal
\* and percent codes
RECURSIVE IsEncoded(_, _)
IsEncoded(v, literal) ==
    \/ v = <<>>
    \/ /\ Head(v) \in PlainChars \cup literal
       /\ IsEncoded(Tail(v), literal)
    \/ /\ Len(v) >= 3
       /\ SubSeq(v, 1, 3) \in PercentCodes
       /\ IsEncoded(SubSeq(v, 4, Len(v)), literal)

\* item is 'key=value': a key of plain characters and an encoded value, in
\* which a space may stand inside the value and a comma in the value of a
\* multi-valued attribute
IsKeyedItem(item) ==
    /\ \E i \in 1..Len(item) : item[i] = "="
    /\ LET key   == Split(item, "=")[1]
           value == SubSeq(item, Len(key) + 2, Len(item))
       IN  /\ key # <<>>
           /\ \A i \in 1..Len(key) : key[i] \in PlainChars
           /\ Strip(value) = value
           /\ IsEncoded(value, IF key \in MultivaluedAttributes
                               THEN {" ", ","} ELSE {" "})

\* item is an unkeyed token: not empty, plain characters and percent codes
IsUnkeyedToken(item) ==
    item # <<>> /\ IsEncoded(item, {})

\* S is an attribute string of the supported grammar: ';'-separated
\* 'key=value' pairs (each key once) and unkeyed tokens, percent-encoded
\* values, optional trailing ';'
InGrammar(S) ==
    \/ S = <<>>
    \/ LET body  == IF S[Len(S)] = ";" THEN SubSeq(S, 1, Len(S) - 1) ELSE S
           items == Split(body, ";")
       IN  /\ \A i \in 1..Len(items) :
                 IsKeyedItem(items[i]) \/ IsUnkeyedToken(items[i])
           /\ \A i, j \in 1..Len(items) :
                 (/\ i # j
                  /\ IsKeyedItem(items[i])
                  /\ IsKeyedItem(items[j]))
                    => Split(items[i], "=")[1] # Split(items[j], "=")[1]

\* C1: for every attribute string S of the supported grammar,
\* str(GFFAttributes(S)) with encoding enabled equals S exactly, including
\* key order, unkeyed tokens and the trailing separator.
C1_RoundTrip ==
    (attr_pc = "printed" /\ InGrammar(attribute_data))
        => attr_str = attribute_data

(***************************************************************************)
(* Claims about GFFInsertMissingGenes                                      *)
(***************************************************************************)
\* list without its k-th element
Without(list, k) == SubSeq(list, 1, k - 1) \o SubSeq(list, k + 1, Len(list))

\* line is on chromosome chrom and starts before start
StartsBefore(line, chrom, start) ==
    line.seqname = chrom /\ line.start < start

\* line is the record synthesized for gene
SynthesizedFor(line, gene) ==
    /\ line.feature = "CDS"
    /\ line.score = "0"
    /\ line.frame = "0"
    /\ line.source = "GFFcleaner"
    /\ line.attributes["ID"] = <<"CDS", ":">> \o gene.name \o <<":", "1">>
    /\ line.seqname = gene.chr
    /\ line.end = gene.end

\* The last pass inserted the record of its gene at place k of the data, and
\* the record before it is the last record of the data as it was that is on
\* the gene's chromosome and starts before the gene
InsertedAfterAnchor(k) ==
    LET gene  == ins_mapping[ins_done]
        start == IntVal(gene.start)
    IN  /\ Without(ins_gff_data, k) = ins_step.before
        /\ SynthesizedFor(ins_gff_data[k], gene)
        /\ k > 1
        /\ StartsBefore(ins_step.before[k - 1], gene.chr, start)
        /\ \A j \in k..Len(ins_step.before) :
              ~StartsBefore(ins_step.before[j], gene.chr, start)

\* C13: GFFInsertMissingGenes places each synthesized record immediately
\* after the last existing record on the same chromosome whose start is less
\* than the new gene's start; the record has feature 'CDS', score '0',
\* frame '0', source 'GFFcleaner' and ID 'CDS:<name>:1'.
C13_InsertedAfterLastBefore ==
    ins_step.inserted => \E k \in 1..Len(ins_gff_data) : InsertedAfterAnchor(k)

\* The data as it was has a record on the gene's chromosome that starts
\* before the gene
HasAnchor ==
    \E j \in 1..Len(ins_step.before) :
        StartsBefore(ins_step.before[j], ins_mapping[ins_done].chr,
                     IntVal(ins_mapping[ins_done].start))

\* The placement holds whenever such a record exists
InsertedAfterAnchorIfAny ==
    (ins_step.inserted /\ HasAnchor)
        => \E k \in 1..Len(ins_gff_data) : InsertedAfterAnchor(k)

\* The SGD values of the input records
InputSGDs ==
    {ins_input[i].attributes["SGD"] :
        i \in {j \in 1..Len(ins_input) : "SGD" \in DOMAIN ins_input[j].attributes}}

\* The genes of the mapping file that are missing from the input
MissingGenes ==
    {g \in 1..Len(ins_mapping) :
        IntOk(ins_mapping[g].start) /\ ins_mapping[g].name \notin InputSGDs}

\* The data holds a record synthesized for the gene
HasRecordFor(gene) ==
    \E k \in 1..Len(ins_gff_data) : SynthesizedFor(ins_gff_data[k], gene)

\* C14: a record is inserted for a gene of the mapping file if and only if
\* its name equals no SGD value of the input records (and its start parses
\* as an integer); every existing record is kept unchanged and in its
\* original relative order; the record count grows by one per missing gene.
C14_InsertedIffMissing ==
    ins_pc = "returned" =>
        /\ \A g \in 1..Len(ins_mapping) :
              HasRecordFor(ins_mapping[g]) <=> g \in MissingGenes
        /\ SelectSeq(ins_gff_data, LAMBDA d : d.source # "GFFcleaner")
             = ins_input
        /\ Len(ins_gff_data) = Len(ins_input) + Cardinality(MissingGenes)

\* C14 witness: the call returned for a mapping file that holds a gene whose
\* name is an SGD value of the input, two missing genes and a gene with a
\* bad start; two records were inserted among three existing ones.
C14_Witness ==
    /\ ins_pc = "returned"
    /\ Len(ins_input) = 3
    /\ Len(ins_gff_data) = 5
    /\ \E g \in 1..Len(ins_mapping) : ins_mapping[g].name \in InputSGDs
    /\ \E g \in 1..Len(ins_mapping) : ~IntOk(ins_mapping[g].start)

(***************************************************************************)
(* Claims about GFFGroupSGDs                                               *)
(***************************************************************************)
\* The record has a non-blank SGD attribute
HasSGDValue(d) ==
    "SGD" \in DOMAIN d.attributes /\ d.attributes["SGD"] # <<>>

\* The ID of the record is 'CDS:<SGD>:<i>' for the record's own SGD and an
\* integer i >= 1
HasGroupID(d) ==
    /\ "ID" \in DOMAIN d.attributes
    /\ LET items == Split(d.attributes["ID"], ":")
       IN  /\ Len(items) = 3
           /\ items[1] = <<"CDS">>
           /\ items[2] = d.attributes["SGD"]
           /\ IntOk(items[3])
           /\ IntVal(items[3]) >= 1

\* C15: GFFGroupSGDs completes, and afterwards every record with a
\* non-blank SGD attribute has an ID of the form 'CDS:<SGD>:<i>' with its
\* own SGD value and an integer i >= 1, and the records with a blank or
\* absent SGD have their ID unchanged.
C15_GroupIDs ==
    gs_pc \in {"returned", "raised"} =>
        /\ gs_pc = "returned"
        /\ \A i \in 1..Len(gs_gff_data) :
              IF HasSGDValue(gs_gff_data[i])
              THEN HasGroupID(gs_gff_data[i])
              ELSE gs_gff_data[i] = gs_input[i]

\* The postcondition alone, for the calls that return
GroupIDsOnReturn ==
    gs_pc = "returned" =>
        \A i \in 1..Len(gs_gff_data) :
            IF HasSGDValue(gs_gff_data[i])
            THEN HasGroupID(gs_gff_data[i])
            ELSE gs_gff_data[i] = gs_input[i]

(***************************************************************************)
(* Claims about GTFAttributes                                              *)
(***************************************************************************)
\* C12: for every GTF attribute string S made of 'key value;' segments
\* separated by one space (values optionally double-quoted, keys possibly
\* repeated), str(GTFAttributes(S)) equals S.
C12_RoundTrip ==
    (gtf_pc = "printed" /\ gtf_attribute_data \in GtfStrings)
        => gtf_str = gtf_attribute_data

(***************************************************************************)
(* Claims about getAnnotation                                              *)
(***************************************************************************)
\* The lines of the file that the index holds under idx
IndexedLines(idx) ==
    SelectSeq(ann_data,
              LAMBDA d :
                  IF ann_format = "gff"
                  THEN "ID" \in DOMAIN d.attributes /\ d.attributes["ID"] = idx
                  ELSE /\ d.feature = "gene"
                       /\ "gene_id" \in DOMAIN d.attributes
                       /\ d.attributes["gene_id"] = idx)

\* idx has no record in the index, or none of the configured feature type
NoRecordFor(idx) ==
    \A i \in 1..Len(IndexedLines(idx)) :
        ann_feature_type # "" /\ IndexedLines(idx)[i].feature # ann_feature_type

\* C11: getAnnotation(id) for an identifier with no record in the index (or
\* no record of the configured feature type) does not raise and returns a
\* placeholder: parent_feature_name is the identifier; feature type, parent,
\* gene name, chr, start, end, strand, locus, length and description are
\* empty.
C11_Placeholder ==
    (ann_pc = "annotated" /\ NoRecordFor(anc_idx))
        => /\ ~annotation.raised
           /\ annotation.parent_feature_name = anc_idx
           /\ annotation.parent_feature_type = <<>>
           /\ annotation.parent_feature_parent = <<>>
           /\ annotation.parent_gene_name = <<>>
           /\ annotation.chr = <<>>
           /\ annotation.start = <<>>
           /\ annotation.end = <<>>
           /\ annotation.strand = <<>>
           /\ GeneLocus(annotation) = <<>>
           /\ GeneLength(annotation) = <<>>
           /\ annotation.description = <<>>

\* C11 witness: the identifier has lines in the index, none of them of the
\* configured feature type, and the placeholder was returned.
C11_Witness ==
    /\ ann_pc = "annotated"
    /\ NoRecordFor(anc_idx)
    /\ IndexedLines(anc_idx) # <<>>
    /\ annotation.parent_feature_name = anc_idx
    /\ annotation.parent_feature_type = <<>>

\* getAnnotation returned a full annotation of a GFF feature
FullAnnotation ==
    /\ ann_pc = "annotated"
    /\ ann_format = "gff"
    /\ ~annotation.raised
    /\ annotation.description = <<"d", ";", "Note", "=", "n">>
    /\ GeneLocus(annotation) = <<"chr1", ":", "1", "0", "-", "2", "5">>
    /\ GeneLength(annotation) = <<15>>

(***************************************************************************)
(* Claims about getAncestorGene                                            *)
(***************************************************************************)
\* getAncestorGene returned a gene two hops up the parent chain
TwoHopsToGene ==
    /\ ann_pc = "returned"
    /\ anc_idx \in DOMAIN lookup_parent
    /\ lookup_parent[anc_idx] \in DOMAIN lookup_parent
    /\ lookup_parent[lookup_parent[anc_idx]] = anc_idx0
    /\ Cardinality({anc_idx, lookup_parent[anc_idx], anc_idx0}) = 3
    /\ anc_result.kind = "line"

\* The lines of the file with this ID, in file order
LinesWithID(idx) ==
    SelectSeq(ann_data, LAMBDA d : /\ "ID" \in DOMAIN d.attributes
                                   /\ d.attributes["ID"] = idx)

\* The file has a line with a Parent attribute under this ID
HasParent(idx) ==
    \E i \in 1..Len(ann_data) :
        /\ "ID" \in DOMAIN ann_data[i].attributes
        /\ ann_data[i].attributes["ID"] = idx
        /\ "Parent" \in DOMAIN ann_data[i].attributes

IsGeneLine(d) == d.feature = "gene"

\* getAncestorGene has returned (or raised) after following the parents of
\* anc_idx to anc_idx0, where the chain ends
AncestorReturned ==
    ann_pc = "returned" /\ ~HasParent(anc_idx0)

\* C9: if the parent chain of A has at least one hop and ends at an
\* identifier that has a line of feature type 'gene', getAncestorGene(A)
\* returns that gene line (the first one, if several lines share the ID);
\* if A has no Parent, getAncestorGene(A) returns None without raising.
C9_AncestorLaw ==
    AncestorReturned =>
        /\ (/\ HasParent(anc_idx)
            /\ \E i \in 1..Len(LinesWithID(anc_idx0)) :
                  IsGeneLine(LinesWithID(anc_idx0)[i]))
              => /\ anc_result.kind = "line"
                 /\ anc_result.line = SelectSeq(LinesWithID(anc_idx0),
                                                IsGeneLine)[1]
        /\ ~HasParent(anc_idx) => anc_result = NoneResult

\* C9 witness: a parent chain ended at an identifier with two lines, the
\* second of them the gene, and that line was returned.
C9_Witness ==
    /\ AncestorReturned
    /\ HasParent(anc_idx)
    /\ anc_idx # anc_idx0
    /\ Len(LinesWithID(anc_idx0)) = 2
    /\ ~IsGeneLine(LinesWithID(anc_idx0)[1])
    /\ anc_result = [kind |-> "line", line |-> LinesWithID(anc_idx0)[2]]

\* C10: when the parent chain (at least one hop) ends at an identifier whose
\* lines are not of feature type 'gene', getAncestorGene raises an error
\* instead of returning None.
C10_NonGeneAncestorRaises ==
    (/\ AncestorReturned
     /\ HasParent(anc_idx)
     /\ LinesWithID(anc_idx0) # <<>>
     /\ \A i \in 1..Len(LinesWithID(anc_idx0)) :
           ~IsGeneLine(LinesWithID(anc_idx0)[i]))
        => anc_result.kind \notin {"None", "line"}

(***************************************************************************)
(* OrderedDictionary                                                       *)
(***************************************************************************)
\* the key list and the value store agree: no key twice, and the keys of
\* the list are exactly the keys that have a value
ODConsistent(d) ==
    /\ NoRepeats(d.keys)
    /\ Range(d.keys) = DOMAIN d.dict

\* the values of all keys but key are the ones of before
OtherValuesKept(key) ==
    \A k \in DOMAIN od_before.dict \ {key} :
        k \in DOMAIN od_dict.dict /\ od_dict.dict[k] = od_before.dict[k]

WasKey == od_op.key \in Range(od_before.keys)

\* set: a new key goes to the end, an existing key keeps its position
SetLaw ==
    od_op.name = "set" =>
        /\ od_out = "None"
        /\ od_dict.keys = IF WasKey THEN od_before.keys
                     ELSE Append(od_before.keys, od_op.key)
        /\ od_dict.dict[od_op.key] = od_op.value
        /\ OtherValuesKept(od_op.key)

\* get: the value of a key, KeyError for a missing key; nothing changes
GetLaw ==
    od_op.name = "get" =>
        /\ od_dict = od_before
        /\ od_out = IF WasKey THEN od_before.dict[od_op.key] ELSE "KeyError"

\* delete: the key goes and the others keep their order and values;
\* KeyError for a missing key, and nothing changes
DelLaw ==
    od_op.name = "del" =>
        IF WasKey
        THEN /\ od_out = "None"
             /\ od_dict.keys = SelectSeq(od_before.keys,
                                    LAMBDA k : k # od_op.key)
             /\ OtherValuesKept(od_op.key)
        ELSE od_out = "KeyError" /\ od_dict = od_before

\* the new key of the last insert is at position i (counted from 0) of
\* keys(), and the other keys are in the order they had
InsertedAt(i) ==
    /\ 0 <= i /\ i < Len(od_dict.keys)
    /\ od_dict.keys[i + 1] = od_op.key
    /\ Without(od_dict.keys, i + 1) = od_before.keys

\* insert of a new key: it has the value, the other keys keep order and
\* values; of an existing key: KeyError and nothing changes
InsertLaw(position) ==
    od_op.name = "insert" =>
        IF WasKey
        THEN od_out = "KeyError" /\ od_dict = od_before
        ELSE /\ od_out = "None"
             /\ InsertedAt(position)
             /\ od_dict.dict[od_op.key] = od_op.value
             /\ OtherValuesKept(od_op.key)

\* where list.insert(i, x) puts x in a list of n items
ClampedPosition(i, n) ==
    IF i < 0 THEN (IF n + i < 0 THEN 0 ELSE n + i)
    ELSE IF i > n THEN n ELSE i

\* C16: after any sequence of set, get, delete and insert the key list has
\* no duplicates and holds exactly the keys that have a value; set appends a
\* new key and leaves an existing key where it is, changing its value;
\* insert(i,key,value) of a new key puts it at position i when i is a
\* position of the list (0 <= i <= len), at the end when i is larger and at
\* len+i (at least 0) when i is negative; insert of an existing key and
\* get/delete of a missing key raise KeyError and change nothing.
C16_OrderedDictionary ==
    od_pc = "live" =>
        /\ ODConsistent(od_dict)
        /\ SetLaw
        /\ GetLaw
        /\ DelLaw
        /\ InsertLaw(ClampedPosition(od_op.i, Len(od_before.keys)))

\* C16 as stated: insert(i,key,value) puts the new key at position i,
\* whatever i is
C16_AsStated ==
    od_pc = "live" =>
        /\ ODConsistent(od_dict)
        /\ SetLaw
        /\ GetLaw
        /\ DelLaw
        /\ InsertLaw(od_op.i)

\* C16 witness: a new key was inserted in the middle of two keys, between
\* them in keys(), with its value stored
C16_Witness ==
    /\ od_pc = "live"
    /\ od_op.name = "insert"
    /\ od_op.i = 1
    /\ Len(od_before.keys) = 2
    /\ od_dict.keys = <<od_before.keys[1], od_op.key, od_before.keys[2]>>
    /\ od_dict.dict[od_op.key] = od_op.value

\* insert(-1, ...) into a dictionary of two keys: the new key is the
\* second of three, not the last
InsertBeforeLast ==
    /\ od_pc = "live"
    /\ od_op.name = "insert"
    /\ od_op.i = -1
    /\ Len(od_before.keys) = 2
    /\ od_dict.keys[2] = od_op.key

\* a refused insert: the key was there, KeyError, nothing changed
InsertRefused ==
    /\ od_pc = "live"
    /\ od_op.name = "insert"
    /\ WasKey
    /\ od_out = "KeyError"
    /\ od_dict = od_before

(***************************************************************************)
(* GFFAddIDAttributes                                                      *)
(***************************************************************************)
HadID(i) == ODContains(aid_input[i].attributes, "ID")

HadParent(i) == ODContains(aid_input[i].attributes, "Parent")

\* record i has an ID now, and it is the first attribute key
HasIDFirst(i) ==
    /\ aid_gff_data[i].attributes.keys # <<>>
    /\ aid_gff_data[i].attributes.keys[1] = "ID"

\* the ID of record i is '<feature>:<Parent>:<n>' for some count n, with
\* NOPARENT for a record without Parent
HasGeneratedID(i) ==
    /\ ODContains(aid_gff_data[i].attributes, "ID")
    /\ \E n \in 1..Len(aid_input) :
          aid_gff_data[i].attributes.dict["ID"] =
              IF HadParent(i)
              THEN ParentID(aid_input[i].feature,
                            aid_input[i].attributes.dict["Parent"], n)
              ELSE NoParentID(aid_input[i].feature, n)

\* C17: after GFFAddIDAttributes every record has an ID attribute and it is
\* the first attribute key; a record that had no ID has a generated ID
\* '<feature>:<Parent>:<n>' ('<feature>:NOPARENT:<n>' without Parent), the
\* generated IDs are pairwise distinct, and a record that had an ID keeps it.
C17_EveryFeatureHasID ==
    aid_pc = "returned" =>
        /\ \A i \in 1..Len(aid_gff_data) :
              /\ HasIDFirst(i)
              /\ IF HadID(i)
                 THEN aid_gff_data[i].attributes.dict["ID"] =
                          aid_input[i].attributes.dict["ID"]
                 ELSE HasGeneratedID(i)
        /\ \A i, j \in 1..Len(aid_gff_data) :
              (/\ i # j /\ ~HadID(i) /\ ~HadID(j)
               /\ ODContains(aid_gff_data[i].attributes, "ID")
               /\ ODContains(aid_gff_data[j].attributes, "ID"))
                 => aid_gff_data[i].attributes.dict["ID"] #
                        aid_gff_data[j].attributes.dict["ID"]

\* The part of C17 that is about the records with a Parent and no ID, and
\* about the records that had an ID: the former get '<feature>:<Parent>:<n>'
\* as first attribute, pairwise distinct, the latter are left as they were
IDsForRecordsWithParent ==
    aid_pc = "returned" =>
        /\ \A i \in 1..Len(aid_gff_data) :
              IF HadID(i) THEN aid_gff_data[i] = aid_input[i]
              ELSE HadParent(i) => HasIDFirst(i) /\ HasGeneratedID(i)
        /\ \A i, j \in 1..Len(aid_gff_data) :
              (/\ i # j /\ ~HadID(i) /\ ~HadID(j)
               /\ HadParent(i) /\ HadParent(j))
                 => aid_gff_data[i].attributes.dict["ID"] #
                        aid_gff_data[j].attributes.dict["ID"]

\* a record with neither ID nor Parent has gone through the call and has
\* no ID
NoParentLeftWithoutID ==
    /\ aid_pc = "returned"
    /\ \E i \in 1..Len(aid_gff_data) :
          /\ ~HadID(i) /\ ~HadParent(i)
          /\ ~ODContains(aid_gff_data[i].attributes, "ID")

\* a record that had its ID after the Parent keeps the ID in second place
ExistingIDNotFirst ==
    /\ aid_pc = "returned"
    /\ \E i \in 1..Len(aid_gff_data) :
          /\ HadID(i)
          /\ aid_gff_data[i].attributes.keys[1] # "ID"

\* the test of the repository: records with a Parent get the IDs
\* exon:P:00000001 and CDS:P:00000002
TwoGeneratedIDs ==
    /\ aid_pc = "returned"
    /\ Len(aid_gff_data) >= 2
    /\ ODContains(aid_gff_data[1].attributes, "ID")
    /\ ODContains(aid_gff_data[2].attributes, "ID")
    /\ aid_gff_data[1].attributes.dict["ID"] =
           <<"exon", ":", "P", ":", "0", "0", "0", "0", "0", "0", "0", "1">>
    /\ aid_gff_data[2].attributes.dict["ID"] =
           <<"CDS", ":", "P", ":", "0", "0", "0", "0", "0", "0", "0", "2">>

(***************************************************************************)
(* GFFUpdateAttributes                                                     *)
(***************************************************************************)
\* the call GFFUpdateAttributes(gff, update_keys, no_empty_values=...) has
\* returned
UpdateReturned ==
    /\ upd_pc = "returned"
    /\ upd_args.exclude_keys = {}
    /\ ~upd_args.exclude_nokeys

\* key is an attribute of a with a non-empty value
HasValue(a, key) == key \in DOMAIN a.dict /\ a.dict[key] # <<>>

\* with no_empty_values no value of the record became the empty string, and
\* a key whose source key is not in the record has the value it had
UpdateKeepsValues(before, after) ==
    /\ after.keys = before.keys
    /\ upd_args.no_empty_values =>
          \A k \in DOMAIN after.dict :
              after.dict[k] = <<>> => before.dict[k] = <<>>
    /\ \A k \in DOMAIN after.dict :
          (\/ k \notin DOMAIN upd_args.update_keys
           \/ upd_args.update_keys[k] \notin DOMAIN before.dict)
             => after.dict[k] = before.dict[k]

\* C18: after GFFUpdateAttributes(gff, update_keys), in every record and for
\* every key k of update_keys that is in the record and whose source key
\* update_keys[k] is in the record with a non-empty value, the value of k
\* equals the value of the source key; with no_empty_values no value is
\* replaced by an empty string; with the source key absent k is unchanged.
C18_ValuesCopied ==
    UpdateReturned =>
        \A i \in 1..Len(upd_gff_data) :
            /\ UpdateKeepsValues(upd_input[i], upd_gff_data[i])
            /\ \A k \in DOMAIN upd_args.update_keys :
                  (/\ k \in DOMAIN upd_gff_data[i].dict
                   /\ HasValue(upd_gff_data[i], upd_args.update_keys[k]))
                     => upd_gff_data[i].dict[k] =
                            upd_gff_data[i].dict[upd_args.update_keys[k]]

\* C18 read with the value the source key had before the call
ValuesCopiedFromInput ==
    UpdateReturned =>
        \A i \in 1..Len(upd_gff_data) :
            /\ UpdateKeepsValues(upd_input[i], upd_gff_data[i])
            /\ \A k \in DOMAIN upd_args.update_keys :
                  (/\ k \in DOMAIN upd_input[i].dict
                   /\ HasValue(upd_input[i], upd_args.update_keys[k]))
                     => upd_gff_data[i].dict[k] =
                            upd_input[i].dict[upd_args.update_keys[k]]

\* no source key of update_keys is itself replaced
NoChainedUpdate ==
    \A k \in DOMAIN upd_args.update_keys :
        upd_args.update_keys[k] \notin DOMAIN upd_args.update_keys \ {k}

\* Without chained mappings both readings hold
ValuesCopiedUnchained ==
    NoChainedUpdate => C18_ValuesCopied /\ ValuesCopiedFromInput

\* update_keys {a: b, b: c} on 'a=1;b=2;c=3' gives 'a=2;b=3;c=3'
ChainedInFileOrder ==
    /\ UpdateReturned
    /\ upd_args.update_keys = [k \in {"a", "b"} |->
                                  IF k = "a" THEN "b" ELSE "c"]
    /\ \E i \in 1..Len(upd_gff_data) :
          /\ upd_input[i] = KeyedAttributes(<<"a", "b", "c">>,
                                <<(<<"1">>), <<"2">>, <<"3">> >>, <<>>)
          /\ upd_gff_data[i] = KeyedAttributes(<<"a", "b", "c">>,
                                   <<(<<"2">>), <<"3">>, <<"3">> >>, <<>>)

\* the same update_keys on 'b=2;a=1;c=3' gives 'b=3;a=3;c=3'
ChainedAgainstFileOrder ==
    /\ UpdateReturned
    /\ upd_args.update_keys = [k \in {"a", "b"} |->
                                  IF k = "a" THEN "b" ELSE "c"]
    /\ \E i \in 1..Len(upd_gff_data) :
          /\ upd_input[i] = KeyedAttributes(<<"b", "a", "c">>,
                                <<(<<"2">>), <<"1">>, <<"3">> >>, <<>>)
          /\ upd_gff_data[i] = KeyedAttributes(<<"b", "a", "c">>,
                                   <<(<<"3">>), <<"3">>, <<"3">> >>, <<>>)

(***************************************************************************)
(* GFFResolveDuplicateSGDs: the overlap test and the chr/strand filter     *)
(***************************************************************************)
\* the candidate genes of a duplicated name that passed the filter on
\* chromosome and strand, and the grouped runs of each
CandidateGenes(sgd) ==
    GeneKeys(duplicates.dict[sgd], MappingGenes(mapping_data, sgd), <<>>)

RunsOf(sgd, gene) == GroupByID(DuplicatesOfGene(duplicates.dict[sgd], gene))

\* the first record of the run starts after gene.start - overlap_margin and
\* its last record ends before gene.end + overlap_margin
StrictlyInside(gene, run) ==
    /\ gene.start - OverlapMargin < run[1].start
    /\ run[Len(run)].end < gene.end + OverlapMargin

\* the run touches a bound of the region
TouchesBound(gene, run) ==
    \/ run[1].start = gene.start - OverlapMargin
    \/ run[Len(run)].end = gene.end + OverlapMargin

\* the pairs (candidate gene, run) that count as a match
MatchingPairs(sgd) ==
    {p \in (1..Len(CandidateGenes(sgd))) \X (1..MaxLines + 1) :
        /\ p[2] <= Len(RunsOf(sgd, CandidateGenes(sgd)[p[1]]))
        /\ StrictlyInside(CandidateGenes(sgd)[p[1]],
                          RunsOf(sgd, CandidateGenes(sgd)[p[1]])[p[2]])}

\* every record of every run that is not a match is in the discard list
NonMatchesDiscarded(sgd) ==
    \A g \in 1..Len(CandidateGenes(sgd)) :
        \A r \in 1..Len(RunsOf(sgd, CandidateGenes(sgd)[g])) :
            LET run == RunsOf(sgd, CandidateGenes(sgd)[g])[r]
            IN  ~StrictlyInside(CandidateGenes(sgd)[g], run)
                    => \A i \in 1..Len(run) : run[i] \in Range(result.discard)

\* C19: a grouped run is a match for a candidate gene iff its first record
\* starts strictly after gene.start - overlap_margin and its last record ends
\* strictly before gene.end + overlap_margin.  Seen from the result: a name
\* with candidates after the filter is resolved iff exactly one (gene, run)
\* pair is strictly inside, has no overlaps iff none is, has multiple matches
\* otherwise; and for a resolved name all records of the runs that are not
\* strictly inside, those touching a bound included, are discarded.
C19_StrictOverlap ==
    sgd_pc = "returned" =>
        \A sgd \in Range(duplicates.keys) :
            CandidateGenes(sgd) # <<>> =>
                /\ sgd \in Range(result.resolved_sgds)
                       <=> Cardinality(MatchingPairs(sgd)) = 1
                /\ sgd \in Range(result.unresolved_sgds_no_overlaps)
                       <=> Cardinality(MatchingPairs(sgd)) = 0
                /\ sgd \in Range(result.unresolved_sgds_multiple_matches)
                       <=> Cardinality(MatchingPairs(sgd)) > 1
                /\ sgd \in Range(result.resolved_sgds)
                       => NonMatchesDiscarded(sgd)

\* a run of name sgd touches the given bound of a candidate gene's region,
\* lies inside it otherwise, and its records are discarded
BoundaryRunDiscarded(sgd, lower) ==
    \E g \in 1..Len(CandidateGenes(sgd)) :
        \E r \in 1..Len(RunsOf(sgd, CandidateGenes(sgd)[g])) :
            LET gene == CandidateGenes(sgd)[g]
                run  == RunsOf(sgd, gene)[r]
            IN  /\ InRegionInclusive(gene, run, OverlapMargin)
                /\ IF lower THEN run[1].start = gene.start - OverlapMargin
                   ELSE run[Len(run)].end = gene.end + OverlapMargin
                /\ \A i \in 1..Len(run) : run[i] \in Range(result.discard)

\* C19 witness: two names are resolved; one has a run that starts exactly at
\* the lower bound, the other a run that ends exactly at the upper bound, and
\* the records of both runs are discarded.
C19_Witness ==
    /\ sgd_pc = "returned"
    /\ Len(result.resolved_sgds) = 2
    /\ \E sgd \in Range(result.resolved_sgds) : BoundaryRunDiscarded(sgd, TRUE)
    /\ \E sgd \in Range(result.resolved_sgds) : BoundaryRunDiscarded(sgd, FALSE)

\* a name whose only runs touch a bound has no overlaps
OnlyBoundaryRuns ==
    /\ sgd_pc = "returned"
    /\ \E sgd \in Range(result.unresolved_sgds_no_overlaps) :
          \A g \in 1..Len(CandidateGenes(sgd)) :
              \A r \in 1..Len(RunsOf(sgd, CandidateGenes(sgd)[g])) :
                  TouchesBound(CandidateGenes(sgd)[g],
                               RunsOf(sgd, CandidateGenes(sgd)[g])[r])

\* the lists of the result that hold the name sgd
ListsHolding(sgd) ==
    {k \in Range(VerdictLists) : sgd \in Range(result[k])}

\* the mapping file has a gene of that name
HasCandidate(sgd) ==
    \E i \in 1..Len(mapping_data) : mapping_data[i].name = sgd

\* some duplicate record of the name has the chromosome and the strand of
\* some gene of that name
SomeRecordOnCandidate(sgd) ==
    \E i \in 1..Len(mapping_data), d \in Range(duplicates.dict[sgd]) :
        /\ mapping_data[i].name = sgd
        /\ mapping_data[i].chr = d.seqname
        /\ mapping_data[i].strand = d.strand

\* C20: a name with at least one candidate gene of the same name, of which no
\* duplicate record has both chromosome and strand of any candidate, is in
\* unresolved_sgds_no_mapping_genes_after_filter and in no other list; a name
\* with no candidate gene at all is in unresolved_sgds_no_mapping_genes and
\* in no other list.
C20_ChrStrandFilter ==
    sgd_pc = "returned" =>
        \A sgd \in Range(duplicates.keys) :
            /\ (HasCandidate(sgd) /\ ~SomeRecordOnCandidate(sgd))
                  => ListsHolding(sgd) =
                         {"unresolved_sgds_no_mapping_genes_after_filter"}
            /\ ~HasCandidate(sgd)
                  => ListsHolding(sgd) = {"unresolved_sgds_no_mapping_genes"}

\* C20 witness: one name has a candidate gene on its chromosome but all its
\* records are on the other strand, and it is in the after-filter list;
\* another name has no gene in the mapping file and is in the
\* no-mapping-genes list.
C20_Witness ==
    /\ sgd_pc = "returned"
    /\ \E sgd \in Range(result.unresolved_sgds_no_mapping_genes_after_filter) :
          /\ \E i \in 1..Len(mapping_data), d \in Range(duplicates.dict[sgd]) :
                /\ mapping_data[i].name = sgd
                /\ mapping_data[i].chr = d.seqname
                /\ mapping_data[i].strand # d.strand
          /\ ~SomeRecordOnCandidate(sgd)
    /\ \E sgd \in Range(result.unresolved_sgds_no_mapping_genes) :
          ~HasCandidate(sgd)

(***************************************************************************)
(* GFFResolveDuplicateSGDs: what the runs are formed from                  *)
(***************************************************************************)
\* the duplicate records of the name that are on the chromosome and the
\* strand of the gene, in the order of the duplicate list
RecordsOn(sgd, gene) ==
    SelectSeq(duplicates.dict[sgd],
              LAMBDA d : d.seqname = gene.chr /\ d.strand = gene.strand)

IndexAt(list, i) == GFFID(list[i].attributes["ID"]).index

\* list[a..b] is a maximal run of list: each index is the one before plus
\* one, and the run can be extended at neither end
IsMaximalRun(list, a, b) ==
    /\ 1 <= a /\ a <= b /\ b <= Len(list)
    /\ \A i \in a..(b - 1) : IndexAt(list, i + 1) = IndexAt(list, i) + 1
    /\ a = 1 \/ IndexAt(list, a) # IndexAt(list, a - 1) + 1
    /\ b = Len(list) \/ IndexAt(list, b + 1) # IndexAt(list, b) + 1

\* the maximal runs of list
RunsIn(list) ==
    {SubSeq(list, p[1], p[2]) :
        p \in {q \in (1..Len(list)) \X (1..Len(list)) :
                 IsMaximalRun(list, q[1], q[2])}}

\* the runs that are tested against the candidate genes of the name, as a set
TestedRuns(sgd, gene) == Range(RunsOf(sgd, gene))

\* the (candidate gene, run) pairs strictly inside the gene's region, the
\* runs being those of the records on the gene's chromosome and strand
FilteredMatches(sgd) ==
    {p \in Range(MappingGenes(mapping_data, sgd))
           \X UNION {RunsIn(RecordsOn(sgd, mapping_data[i])) :
                        i \in 1..Len(mapping_data)} :
        /\ p[2] \in RunsIn(RecordsOn(sgd, p[1]))
        /\ StrictlyInside(p[1], p[2])}

PositionsIn(sgd, run) ==
    {i \in 1..Len(duplicates.dict[sgd]) : duplicates.dict[sgd][i] \in Range(run)}

BareNamesWithSGD ==
    \A i \in 1..Len(gs_input) :
        /\ "SGD" \in DOMAIN gs_input[i].attributes
        /\ "ID" \in DOMAIN gs_input[i].attributes
        /\ Len(Split(gs_input[i].attributes["ID"], ":")) = 1

\* records i < j have the same non-blank SGD and no record between them has
\* it
NextWithSameSGD(i, j) ==
    /\ i < j
    /\ gs_input[i].attributes["SGD"] # <<>>
    /\ gs_input[j].attributes["SGD"] = gs_input[i].attributes["SGD"]
    /\ \A k \in (i + 1)..(j - 1) :
          gs_input[k].attributes["SGD"] # gs_input[i].attributes["SGD"]

\* the index field of the ID record i has now
IndexNow(i) == GFFID(gs_gff_data[i].attributes["ID"]).index

ChainedAtFive ==
    /\ gs_pc = "returned"
    /\ BareNamesWithSGD
    /\ Len(gs_input) = 6
    /\ NextWithSameSGD(1, 6)
    /\ IndexNow(1) = 1
    /\ IndexNow(6) = 2

\* three records of one name in a row are numbered 1, 2, 3
ChainOfThree ==
    /\ gs_pc = "returned"
    /\ BareNamesWithSGD
    /\ Len(gs_input) = 3
    /\ NextWithSameSGD(1, 2)
    /\ NextWithSameSGD(2, 3)
    /\ IndexNow(3) = 3

(***************************************************************************)
(* GroupByID: the names within a group                                     *)
(***************************************************************************)
NameOfLine(data) == GFFID(data.attributes["ID"]).name

\* C23: every group returned by GroupByID holds only features with the same
\* ID name: consecutive features are in the same group only if they have the
\* same name and consecutive indices.
C23_SameNameGroups ==
    (grp_pc = "done" /\ ~grp_result.raised) =>
        \A g \in 1..Len(grp_result.subsets) :
            \A i, j \in 1..Len(grp_result.subsets[g]) :
                NameOfLine(grp_result.subsets[g][i]) =
                    NameOfLine(grp_result.subsets[g][j])

\* 'CDS:A:1' followed by 'CDS:B:2' come back as one group
TwoNamesOneGroup ==
    /\ grp_pc = "done"
    /\ ~grp_result.raised
    /\ Len(grp_data) = 2
    /\ NameOfLine(grp_data[1]) # NameOfLine(grp_data[2])
    /\ Len(grp_result.subsets) = 1

(***************************************************************************)
(* GFFAttributes: the unkeyed tokens                                       *)
(***************************************************************************)
HasEquals(segment) == \E i \in 1..Len(segment) : segment[i] = "="

\* the ';'-separated segments of the attribute text
SegmentsOf(data) == IF data = <<>> THEN <<>> ELSE Split(data, ";")

\* the segments without '=' that are not empty, trimmed, in order
UnkeyedAsWritten(data) ==
    LET unkeyed == SelectSeq(SegmentsOf(data),
                             LAMBDA seg : seg # <<>> /\ ~HasEquals(seg))
    IN  [i \in 1..Len(unkeyed) |-> Strip(unkeyed[i])]

\* every segment with '=' has a key
AllKeysNamed(data) ==
    \A i \in 1..Len(SegmentsOf(data)) :
        HasEquals(SegmentsOf(data)[i])
            => Strip(Split(SegmentsOf(data)[i], "=")[1]) # <<>>

\* C24: a segment without '=' is stored exactly as written (trimmed) and an
\* empty segment stores nothing, whatever percent sequences the segment
\* holds.
C24_UnkeyedVerbatim ==
    (attr_pc \in {"parsed", "printed"} /\ AllKeysNamed(attribute_data)) =>
        attrs.nokeys = UnkeyedAsWritten(attribute_data)

\* What holds: the stored token is the percent-decoded trimmed segment, and
\* an empty segment stores nothing
UnkeyedStoredDecoded ==
    (attr_pc \in {"parsed", "printed"} /\ AllKeysNamed(attribute_data)) =>
        /\ Len(attrs.nokeys) = Len(UnkeyedAsWritten(attribute_data))
        /\ \A i \in 1..Len(attrs.nokeys) :
              attrs.nokeys[i] = Unquote(UnkeyedAsWritten(attribute_data)[i])

\* the unkeyed token '%3B' is stored as ';'
UnkeyedTokenDecoded ==
    /\ attr_pc = "printed"
    /\ attribute_data = <<"x", ";", "%", "3", "B">>
    /\ attrs.nokeys = <<(<<"x">>), <<";">> >>
    /\ attr_str = <<"x", ";", ";">>

(***************************************************************************)
(* GFFResolveDuplicateSGDs: the inputs                                     *)
(***************************************************************************)
\* C25: no step of GFFResolveDuplicateSGDs changes gff_data, the mapping
\* table or the duplicates dictionary: from the call to the return they are
\* what they were at the call.
C25_InputsUnchanged ==
    [][sgd_pc = "resolving" =>
           /\ gff_data' = gff_data
           /\ mapping_data' = mapping_data
           /\ duplicates' = duplicates]_vars

\* C25 witness: the resolver has returned with lines to discard, and the
\* lines are still in gff_data and in the duplicates dictionary
C25_Witness ==
    /\ sgd_pc = "returned"
    /\ result.discard # <<>>
    /\ \A i \in 1..Len(result.discard) :
          /\ result.discard[i] \in Range(gff_data)
          /\ \E sgd \in Range(duplicates.keys) :
                result.discard[i] \in Range(duplicates.dict[sgd])
    /\ duplicates = GFFGetDuplicateSGDs(gff_data)

(***************************************************************************)
(* getAncestorGene: termination                                            *)
(***************************************************************************)
\* C26: every call of getAncestorGene returns (or raises), whatever the
\* identifier and the parent map, a parent map with a cycle included.
C26_AncestorTerminates ==
    (ann_pc = "loop") ~> (ann_pc = "returned")

\* the parent links that are followed from idx0 come back to idx0
RECURSIVE OnCycle(_, _, _)
OnCycle(start, at, hops) ==
    /\ hops > 0
    /\ at \in DOMAIN lookup_parent
    /\ \/ lookup_parent[at] = start
       \/ OnCycle(start, lookup_parent[at], hops - 1)

\* Without a cycle in the parent map the loop makes at most one hop per
\* identifier of the map

\* the loop is inside a cycle of the parent map
LoopingInCycle ==
    /\ ann_pc = "loop"
    /\ OnCycle(anc_idx0, anc_idx0, MaxAnnLines + 1)

(***************************************************************************)
(* getAnnotation: identifiers that have a record                           *)
(***************************************************************************)
\* getAnnotation of a GFF lookup has finished for an identifier with a record
AnnotatedWithRecord ==
    /\ ann_pc = "annotated"
    /\ ann_format = "gff"
    /\ anc_idx \in DOMAIN lookup_id

\* the gene-level fields of the annotation are empty
GeneFieldsEmpty ==
    /\ annotation.parent_gene_name = <<>>
    /\ annotation.chr = <<>>
    /\ annotation.start = <<>>
    /\ annotation.end = <<>>
    /\ annotation.strand = <<>>
    /\ annotation.description = <<>>

\* the record found for the identifier has no Parent attribute
RecordWithoutParent ==
    /\ parent_feature.kind = "line"
    /\ "Parent" \notin DOMAIN parent_feature.line.attributes

\* the parent chain of the identifier ended at an identifier with no record
ChainLeavesIndex ==
    anc_idx0 # anc_idx /\ anc_idx0 \notin DOMAIN lookup_id

\* the Parent value of the record lists several comma-joined parents
SeveralParents ==
    /\ anc_idx \in DOMAIN lookup_parent
    /\ "," \in Range(lookup_parent[anc_idx])

\* C27: for a GFF lookup, getAnnotation(id) returns a GFFAnnotation and never
\* raises for an identifier that has a record in the index; when the record
\* has no Parent attribute, when the parent chain names an identifier with no
\* record and when the Parent value lists several parents, the gene-level
\* fields are empty.
C27_AnnotationNeverRaises ==
    AnnotatedWithRecord
        => /\ ~annotation.raised
           /\ (RecordWithoutParent \/ ChainLeavesIndex \/ SeveralParents)
                 => GeneFieldsEmpty

\* a gene queried by its own ID: the record has no Parent and the call raised
GeneByOwnIDRaised ==
    /\ AnnotatedWithRecord
    /\ RecordWithoutParent
    /\ parent_feature.line.feature = "gene"
    /\ annotation.raised

\* the parent chain left the index and the call raised
ChainLeavesIndexRaised ==
    AnnotatedWithRecord /\ ChainLeavesIndex /\ annotation.raised

\* the record lists several parents and the call raised
SeveralParentsRaised ==
    AnnotatedWithRecord /\ SeveralParents /\ annotation.raised

(***************************************************************************)
(* GFFGroupSGDs: records without an SGD attribute                          *)
(***************************************************************************)
\* every record of the input with a non-blank SGD has an ID attribute
NonBlankSGDsHaveID ==
    \A i \in 1..Len(gs_input) :
        LET attributes == gs_input[i].attributes
        IN  ("SGD" \in DOMAIN attributes /\ attributes["SGD"] # <<>>)
                => "ID" \in DOMAIN attributes

\* the records of the input without an SGD attribute are as they were
RecordsWithoutSGDKept ==
    \A i \in 1..Len(gs_input) :
        "SGD" \notin DOMAIN gs_input[i].attributes
            => gs_gff_data[i] = gs_input[i]

\* C28: on an input in which every record with a non-blank SGD has an ID,
\* GFFGroupSGDs does not raise and leaves the records without an SGD
\* attribute unchanged, a record without SGD inside the look-ahead included.
C28_MissingSGDIsBlank ==
    (gs_pc # "off" /\ NonBlankSGDsHaveID)
        => gs_pc # "raised" /\ RecordsWithoutSGDKept

\* the pass raised on a record without SGD that follows, within the
\* look-ahead, a record with a non-blank SGD and an ID
RaisedInLookAhead ==
    /\ gs_pc = "raised"
    /\ NonBlankSGDsHaveID
    /\ gs_next_ln < Len(gs_input)
    /\ "SGD" \notin DOMAIN gs_input[gs_next_ln + 1].attributes

(***************************************************************************)
(* GFFInsertMissingGenes: positional order                                 *)
(***************************************************************************)
\* the records of every chromosome are next to each other
ChromosomesContiguous(data_lines) ==
    \A i, k \in 1..Len(data_lines) :
        (i < k /\ data_lines[i].seqname = data_lines[k].seqname)
            => \A j \in i..k : data_lines[j].seqname = data_lines[i].seqname

\* the records of every chromosome are in non-decreasing order of start
StartsNonDecreasing(data_lines) ==
    \A i, k \in 1..Len(data_lines) :
        (i < k /\ data_lines[i].seqname = data_lines[k].seqname)
            => data_lines[i].start <= data_lines[k].start

PositionalOrder(data_lines) ==
    ChromosomesContiguous(data_lines) /\ StartsNonDecreasing(data_lines)

\* C29: if the records of every chromosome of the input are contiguous and
\* in non-decreasing order of start, the same holds of the data after every
\* insertion of GFFInsertMissingGenes, for a gene that starts before every
\* record of its chromosome and for a gene on a chromosome without record
\* (insertion index -1) as well.
C29_PositionalOrderKept ==
    (ins_pc # "off" /\ PositionalOrder(ins_input))
        => PositionalOrder(ins_gff_data)

\* the last pass inserted at index -1 into ordered data and broke the order
OrderBrokenAtMinusOne ==
    /\ PositionalOrder(ins_input)
    /\ ins_step.inserted
    /\ ins_step.i = 0 - 1
    /\ PositionalOrder(ins_step.before)
    /\ ~PositionalOrder(ins_gff_data)

\* the order is kept by every insertion at an index other than -1
OrderKeptWithAnchor ==
    (ins_step.inserted /\ ins_step.i # 0 - 1 /\ PositionalOrder(ins_step.before))
        => PositionalOrder(ins_gff_data)

(***************************************************************************)
(* GFFGroupSGDs applied to its own output                                  *)
(***************************************************************************)
\* the ID attributes of the records, None for a record without ID
IDsOf(data_lines) ==
    [i \in 1..Len(data_lines) |->
        IF "ID" \in DOMAIN data_lines[i].attributes
        THEN data_lines[i].attributes["ID"] ELSE PyNone]

\* C30: when GFFGroupSGDs has completed on an input, a second call on the
\* data it returned completes and changes no ID attribute, whatever the
\* codes of the IDs of the input.
C30_Idempotent ==
    /\ gs_pc # "raised again"
    /\ gs_pc \in {"looping again", "returned again"}
          => IDsOf(gs_gff_data) = IDsOf(gs_first)

\* some ID of the input carries a code other than 'CDS'
SomeOtherCode ==
    \E i \in 1..Len(gs_input) :
        /\ "ID" \in DOMAIN gs_input[i].attributes
        /\ GFFID(gs_input[i].attributes["ID"]).code \notin {<<>>, <<"CDS">>}

\* the second call returned other IDs for an input with such a code
SecondCallChangedID ==
    /\ gs_pc = "returned again"
    /\ SomeOtherCode
    /\ IDsOf(gs_gff_data) # IDsOf(gs_first)

\* on inputs whose IDs are bare names or carry the code 'CDS' the second call
\* changes no ID
IdempotentWithoutOtherCode ==
    (gs_pc \in {"looping again", "returned again"} /\ ~SomeOtherCode)
        => IDsOf(gs_gff_data) = IDsOf(gs_first)

\* the second call never raises
SecondCallCompletes == gs_pc # "raised again"

=============================================================================
